---- MODULE Spec2Model ----
(***************************************************************************)
(* The control-flow graph of raco/myrial/cfg.py (ControlFlowGraph): its    *)
(* construction, the liveness analysis, dead-code elimination, chaining    *)
(* and the structuring pass of get_logical_plan.                           *)
(***************************************************************************)
EXTENDS Integers, Sequences, FiniteSets, TLC

\* ------------------------------------------------------------------ bounds
\* Most op ids a run hands out (add_op is not called beyond it).
MaxNodes == 3
\* Most explicit add_edge calls of a run.
MaxAddEdge == 1
\* The same two limits where only the loop shape matters (PlanSpec).
PlanNodes == 6
PlanAddEdge == 2

\* ---------------------------------------------------------------- universe
\* Variable names statements define and read.
Vars == {"x", "y"}
\* The order in which an operator lists the temporaries it scans.
VarSeq == <<"x", "y">>
\* Python's None, for a def_var.
None == "None"
\* The statements a run draws from: [def, uses] for "def = f(uses)", with
\* def None for a store.
Stmts ==
    {[def |-> "x",  uses |-> {}],
     [def |-> "y",  uses |-> {"x"}],
     [def |-> "x",  uses |-> {"x"}],
     [def |-> "x",  uses |-> {"y"}],
     [def |-> None, uses |-> {"x"}],
     [def |-> None, uses |-> {"y"}],
     [def |-> None, uses |-> {"x", "y"}]}
\* Python's None, where a node id is expected (find_gt).
NoNode == -1

VARIABLES
    graph_node,       \* self.graph's nodes: id -> its attribute dict
    graph_edge,       \* self.graph's edges: set of <<source, dest>>
    sorted_vertices,  \* self.sorted_vertices
    next_op_id,       \* self._next_op_id
    add_edges,        \* number of add_edge calls made (bounds the run)
    built,            \* the analysis or a rewrite has been called on the graph
    pc,               \* where the running call stands; "idle" between calls
    todo,             \* get_logical_plan: the passes still to run after this one
    live_in,          \* compute_liveness: local live_in
    live_out,         \* compute_liveness: local live_out
    result,           \* what the most recent call returned or raised
    heap,             \* the operator objects of raco.algebra: object id -> fields
    lists,            \* the list objects their fields refer to: list id -> items
    ret,              \* what the most recent call on an operator gave
    gensym_i,         \* raco.algebra's global i, the gensym counter
    nextid,           \* StagedTupleRef.nextid
    names,            \* the names gensym and genname have returned
    kept              \* the result of get_logical_plan that the caller has kept

vars == <<graph_node, graph_edge, sorted_vertices, next_op_id, add_edges, built,
          pc, todo, live_in, live_out, result, heap, lists, ret,
          gensym_i, nextid, names, kept>>

symbols == <<gensym_i, nextid, names>>

cfg == <<graph_node, graph_edge, sorted_vertices, next_op_id>>

algebra == <<heap, lists, ret, symbols, kept>>

control == <<graph_node, graph_edge, sorted_vertices, next_op_id, add_edges, built,
             pc, todo, live_in, live_out, result, symbols, kept>>

\* ---------------------------------------------------------------- operators
\* An operator tree of raco.algebra: its class, its name field (a temporary's
\* name, where the class has one), the statement it was created for, and
\* its children.
Operator(kind, name, stmt, args) ==
    [kind |-> kind, name |-> name, stmt |-> stmt, args |-> args]

ScanTemp(name) == Operator("ScanTemp", name, NoNode, <<>>)

StoreTemp(name, stmt, input) == Operator("StoreTemp", name, stmt, <<input>>)

Store(stmt, input) == Operator("Store", "", stmt, <<input>>)

\* The ScanTemp leaves of an expression that reads the variables in uses.
RECURSIVE ScanList(_, _)
ScanList(k, uses) ==
    IF k > Len(VarSeq) THEN <<>>
    ELSE (IF VarSeq[k] \in uses THEN <<ScanTemp(VarSeq[k])>> ELSE <<>>)
         \o ScanList(k + 1, uses)

\* The operator the front end hands to add_op for the statement
\* "def = f(uses)" (a StoreTemp) or "store f(uses)" (a Store).
StmtOp(stmt, def, uses) ==
    LET inner == Operator("Apply", "", stmt, ScanList(1, uses))
    IN  IF def = None THEN Store(stmt, inner) ELSE StoreTemp(def, stmt, inner)

\* A node's attribute dict; present is FALSE for a node networkx created
\* on its own for an edge's endpoint (an empty dict).
Attr(op, def, uses) == [present |-> TRUE, op |-> op, def_var |-> def, uses |-> uses]

NoAttr == [present |-> FALSE, op |-> ScanTemp(""), def_var |-> None, uses |-> {}]

\* ------------------------------------------------------------ graph queries
Nodes == DOMAIN graph_node

successors(i) == {e[2] : e \in {d \in graph_edge : d[1] = i}}

predecessors(i) == {e[1] : e \in {d \in graph_edge : d[2] = i}}

in_degree(i) == Cardinality(predecessors(i))

out_degree(i) == Cardinality(successors(i))

\* graph.add_edge: the edge, and any endpoint the graph lacks as a bare node.
WithEdge(nodes, s, d) ==
    [i \in DOMAIN nodes \cup {s, d} |-> IF i \in DOMAIN nodes THEN nodes[i] ELSE NoAttr]

\* self.graph.node[i][...] raises KeyError for a node without attributes.
KeyErrorFree == \A i \in Nodes : graph_node[i].present

NoResult == [kind |-> "None", live_in |-> <<>>, live_out |-> <<>>, plan |-> ScanTemp("")]

Raised(exc) == [NoResult EXCEPT !.kind = exc]

\* No call on an operator was made yet.
NoRet ==
    [call |-> "None", val |-> "None", self |-> 0, other |-> 0, seq |-> <<>>,
     graph |-> [nodes |-> <<>>, edges |-> <<>>]]

\* No name generated yet: gensym's names since the most recent reset(), its
\* names before the first reset(), whether reset() was called, and
\* genname's names.
NoNames == [gensym |-> <<>>, fresh |-> <<>>, reset |-> FALSE, genname |-> <<>>]

\* --------------------------------------------------------------------- Init
Init ==
    /\ graph_node = <<>>
    /\ graph_edge = {}
    /\ sorted_vertices = <<>>
    /\ next_op_id = 0
    /\ add_edges = 0
    /\ built = FALSE
    /\ pc = "idle"
    /\ todo = <<>>
    /\ live_in = <<>>
    /\ live_out = <<>>
    /\ result = NoResult
    /\ heap = <<>>
    /\ lists = <<>>
    /\ ret = NoRet
    /\ gensym_i = 0
    /\ nextid = 0
    /\ names = NoNames
    /\ kept = NoResult

\* ------------------------------------------------------------------ add_op
add_op(_def, uses_set) ==
    /\ pc = "idle"
    /\ LET op_id == next_op_id
           withNode == [i \in Nodes \cup {op_id} |->
                          IF i = op_id THEN Attr(StmtOp(op_id, _def, uses_set), _def, uses_set)
                          ELSE graph_node[i]]
       IN  /\ next_op_id' = next_op_id + 1
           /\ sorted_vertices' = Append(sorted_vertices, op_id)
           /\ IF op_id > 0
              THEN /\ graph_node' = WithEdge(withNode, op_id - 1, op_id)
                   /\ graph_edge' = graph_edge \cup {<<op_id - 1, op_id>>}
              ELSE /\ graph_node' = withNode
                   /\ graph_edge' = graph_edge
    /\ result' = NoResult
    /\ UNCHANGED <<add_edges, built, pc, todo, live_in, live_out, algebra>>

\* ---------------------------------------------------------------- add_edge
add_edge(source, dest) ==
    /\ pc = "idle"
    /\ add_edges' = add_edges + 1
    /\ graph_node' = WithEdge(graph_node, source, dest)
    /\ graph_edge' = graph_edge \cup {<<source, dest>>}
    /\ result' = NoResult
    /\ UNCHANGED <<sorted_vertices, next_op_id, built, pc, todo, live_in, live_out, algebra>>

\* -------------------------------------------------------- compute_liveness
\* Faulty variant of InitLiveIn: live_in starts empty.
InitLiveIn_Empty == [i \in Nodes |-> {}]

\* Lines 91-92: live_in starts as a copy of uses, live_out empty.
InitLiveIn == [i \in Nodes |-> graph_node[i].uses]

InitLiveOut == [i \in Nodes |-> {}]

\* Faulty variant of DefSet: a definition kills nothing.
DefSet_NoKill(i) == {}

\* Lines 100-103: def_set of node i.
DefSet(i) == IF graph_node[i].def_var # None THEN {graph_node[i].def_var} ELSE {}

\* Faulty variant of LivenessRound: the maps are assigned, not updated.
LivenessRound_Assign(li, lo) ==
    [live_in  |-> [i \in Nodes |-> lo[i] \ DefSet(i)],
     live_out |-> [i \in Nodes |-> UNION {li[s] : s \in successors(i)}]]

\* Lines 95-108: one round of the while loop; every update reads the
\* copies taken at the top of the round (live_in_prev, live_out_prev).
LivenessRound(li, lo) ==
    [live_in  |-> [i \in Nodes |-> li[i] \cup (lo[i] \ DefSet(i))],
     live_out |-> [i \in Nodes |-> lo[i] \cup UNION {li[s] : s \in successors(i)}]]

\* Line 110: the round changed nothing.
Converged(li, lo) ==
    LET r == LivenessRound(li, lo) IN r.live_in = li /\ r.live_out = lo

\* The call as a whole: the rounds repeated from (li, lo) up to line 111.
\* (The round's maps r are bound by a quantifier so that they are computed
\* once; the same is done in the rounds of the callers below.)
RECURSIVE LivenessFrom(_, _)
LivenessFrom(li, lo) ==
    CHOOSE maps \in {IF r.live_in = li /\ r.live_out = lo THEN r
                     ELSE LivenessFrom(r.live_in, r.live_out)
                     : r \in {LivenessRound(li, lo)}} : TRUE

\* The value of a call of compute_liveness on the graph as it stands.
Liveness == LivenessFrom(InitLiveIn, InitLiveOut)

\* The call is over: its locals are gone and outcome is what it returned or
\* raised.
Return(outcome) ==
    /\ pc' = "idle"
    /\ todo' = <<>>
    /\ live_in' = <<>>
    /\ live_out' = <<>>
    /\ result' = outcome

\* The public call, up to the loop: line 91 raises KeyError on a node
\* without attributes.
compute_liveness ==
    /\ pc = "idle"
    /\ IF KeyErrorFree
       THEN /\ pc' = "liveness"
            /\ live_in' = InitLiveIn
            /\ live_out' = InitLiveOut
            /\ result' = NoResult
            /\ todo' = <<>>
       ELSE Return(Raised("KeyError"))
    /\ built' = TRUE
    /\ UNCHANGED <<cfg, add_edges, algebra>>

\* One round of the while loop of the public call. A round that changes
\* nothing returns the maps (line 111).
liveness_round ==
    /\ pc = "liveness"
    /\ \E r \in {LivenessRound(live_in, live_out)} :
          IF r.live_in = live_in /\ r.live_out = live_out
          THEN Return([NoResult EXCEPT !.kind = "liveness",
                          !.live_in = live_in, !.live_out = live_out])
          ELSE /\ live_in' = r.live_in
               /\ live_out' = r.live_out
               /\ UNCHANGED <<pc, result, todo>>
    /\ UNCHANGED <<cfg, add_edges, built, algebra>>

\* ------------------------------------------------------------------ find_gt
\* bisect_right(a, x): the number of leading entries of the sorted list <= x.
bisect_right(a, x) == Cardinality({k \in 1..Len(a) : a[k] <= x})

\* Faulty variant of find_gt: bisect_left in place of bisect_right.
find_gt_Left(a, x) ==
    LET i == Cardinality({k \in 1..Len(a) : a[k] < x})
    IN  IF i # Len(a) THEN a[i + 1] ELSE NoNode

find_gt(a, x) ==
    LET i == bisect_right(a, x)
    IN  IF i # Len(a) THEN a[i + 1] ELSE NoNode

\* list.remove(x): the list without its first x.
ListRemove(a, x) ==
    LET at == {k \in 1..Len(a) : a[k] = x}
        first == CHOOSE k \in at : \A j \in at : k <= j
    IN  [k \in 1..(Len(a) - 1) |-> IF k < first THEN a[k] ELSE a[k + 1]]

\* ------------------------------------------------------------ __delete_node
\* The edges after lines 121-128: every predecessor gets an edge to the
\* next entry of sorted_vertices, then the node goes with all its edges.
EdgesAfterDelete(node) ==
    LET successor == find_gt(sorted_vertices, node)
        skip == IF predecessors(node) # {} /\ successor # NoNode
                THEN {<<p, successor>> : p \in predecessors(node)}
                ELSE {}
    IN  {e \in graph_edge \cup skip : e[1] # node /\ e[2] # node}

\* The graph with nodes as its node map, after __delete_node(node).
DeleteNode(nodes, node) ==
    /\ graph_node' = [i \in DOMAIN nodes \ {node} |-> nodes[i]]
    /\ graph_edge' = EdgesAfterDelete(node)
    /\ sorted_vertices' = ListRemove(sorted_vertices, node)
    /\ UNCHANGED next_op_id

\* ---------------------------------------------------------- pass sequencing
\* A pass of get_logical_plan (or the public call of a rewrite) begins.
StartPass(pass, rest) ==
    /\ pc' = pass
    /\ todo' = rest
    /\ result' = NoResult
    /\ UNCHANGED <<live_in, live_out>>

\* The current pass is over: the next pass of get_logical_plan starts, or
\* the call returns None.
FinishPass ==
    IF todo = <<>> THEN Return(NoResult) ELSE StartPass(Head(todo), Tail(todo))

\* ---------------------------------------------------- dead_code_elimination
\* Faulty variant of DceDeletes: liveness is not consulted.
DceDeletes_AnyDef(node, lo) == graph_node[node].def_var # None

\* Faulty variant of DceDeletes: the liveness test is inverted.
DceDeletes_Inverted(node, lo) ==
    /\ graph_node[node].def_var # None
    /\ graph_node[node].def_var \in lo[node]

\* Line 223: the node defines a variable nothing downstream needs.
DceDeletes(node, lo) ==
    /\ graph_node[node].def_var # None
    /\ graph_node[node].def_var \notin lo[node]

\* The public call, up to its loop.
dead_code_elimination ==
    /\ pc = "idle"
    /\ StartPass("dce", <<>>)
    /\ built' = TRUE
    /\ UNCHANGED <<cfg, add_edges, algebra>>

\* Lines 214-226, one round of the loop: liveness is computed afresh (line
\* 215), the first node of the graph's iteration order that qualifies is
\* deleted and the loop goes round again; with none the loop ends. The
\* iteration order of the graph's node dict is not fixed by the code: any
\* qualifying node may be the first.
dce_round ==
    /\ pc = "dce"
    /\ IF ~KeyErrorFree
       THEN /\ Return(Raised("KeyError"))
            /\ UNCHANGED cfg
       ELSE \E out_set \in {Liveness.live_out} :
               IF \E n \in Nodes : DceDeletes(n, out_set)
               THEN \E n \in Nodes :
                      /\ DceDeletes(n, out_set)
                      /\ DeleteNode(graph_node, n)
                      /\ UNCHANGED <<pc, todo, result, live_in, live_out>>
               ELSE /\ FinishPass
                    /\ UNCHANGED cfg
    /\ UNCHANGED <<add_edges, built, algebra>>

\* ----------------------------------------------------------- __inline_node
\* dest_op with target_inner_op in place of every scan of the temporary var.
RECURSIVE inline_operator(_, _, _)
inline_operator(dest_op, var, target_inner_op) ==
    IF dest_op.kind = "ScanTemp" /\ dest_op.name = var
    THEN target_inner_op
    ELSE [dest_op EXCEPT !.args =
            [k \in 1..Len(dest_op.args) |->
                inline_operator(dest_op.args[k], var, target_inner_op)]]

\* Lines 136-146: the assertions of __inline_node.
InlineAsserts(dest_node, target_node) ==
    /\ target_node \in Nodes
    /\ dest_node \in Nodes
    /\ graph_node[target_node].op.kind = "StoreTemp"
    /\ graph_node[target_node].def_var # None

\* Faulty variant of InlinedAttr: the target's uses are not merged in.
InlinedAttr_NoMerge(dest_node, target_node) ==
    LET target_inner_op == graph_node[target_node].op.args[1]
        var == graph_node[target_node].def_var
        new_op == inline_operator(graph_node[dest_node].op, var, target_inner_op)
    IN  [graph_node[dest_node] EXCEPT !.op = new_op, !.uses = @ \ {var}]

\* Lines 139-154: the destination's attributes after the inlining.
InlinedAttr(dest_node, target_node) ==
    LET target_inner_op == graph_node[target_node].op.args[1]
        var == graph_node[target_node].def_var
        new_op == inline_operator(graph_node[dest_node].op, var, target_inner_op)
        uses_set == (graph_node[dest_node].uses \ {var}) \cup graph_node[target_node].uses
    IN  [graph_node[dest_node] EXCEPT !.op = new_op, !.uses = uses_set]

\* -------------------------------------------------------------- apply_chaining
\* Faulty variant of ChainFuses: the variable may still be live after nodeB.
ChainFuses_StillLive(nodeA, nodeB, lo) ==
    /\ in_degree(nodeB) # 2
    /\ graph_node[nodeA].def_var # None
    /\ graph_node[nodeA].def_var \in graph_node[nodeB].uses

\* Lines 187-199: the pair (nodeA, nodeB) passes every "continue".
ChainFuses(nodeA, nodeB, lo) ==
    /\ in_degree(nodeB) # 2
    /\ graph_node[nodeA].def_var # None
    /\ graph_node[nodeA].def_var \in graph_node[nodeB].uses
    /\ graph_node[nodeA].def_var \notin lo[nodeB]

\* Faulty variant of sliding_window: the first pair is left out.
sliding_window_Late(seq) == 2..(Len(seq) - 1)

\* Faulty variant of sliding_window: the last pair is left out.
sliding_window_Short(seq) == 1..(Len(seq) - 2)

\* sliding_window(seq): the positions k of its pairs (seq[k], seq[k+1]).
sliding_window(seq) == 1..(Len(seq) - 1)

\* The public call, up to its loop.
apply_chaining ==
    /\ pc = "idle"
    /\ StartPass("chain", <<>>)
    /\ built' = TRUE
    /\ UNCHANGED <<cfg, add_edges, algebra>>

\* Lines 181-203, one round of the loop: liveness is computed afresh (line
\* 182), the first pair of sorted_vertices that passes is inlined and the
\* loop goes round again; with none the loop ends.
chain_round ==
    /\ pc = "chain"
    /\ IF ~KeyErrorFree
       THEN /\ Return(Raised("KeyError"))
            /\ UNCHANGED cfg
       ELSE \E out_set \in {Liveness.live_out} :
            \E fusable \in {{k \in sliding_window(sorted_vertices) :
                               ChainFuses(sorted_vertices[k], sorted_vertices[k + 1],
                                          out_set)}} :
               IF fusable # {}
               THEN \E k \in fusable :
                    \E nodeA \in {sorted_vertices[k]}, nodeB \in {sorted_vertices[k + 1]} :
                       /\ \A j \in fusable : k <= j
                       /\ IF InlineAsserts(nodeB, nodeA)
                          THEN /\ DeleteNode([graph_node EXCEPT
                                                ![nodeB] = InlinedAttr(nodeB, nodeA)], nodeA)
                               /\ UNCHANGED <<pc, todo, result, live_in, live_out>>
                          ELSE /\ Return(Raised("AssertionError"))
                               /\ UNCHANGED cfg
               ELSE /\ FinishPass
                    /\ UNCHANGED cfg
    /\ UNCHANGED <<add_edges, built, algebra>>

\* ------------------------------------------------------------ get_logical_plan
\* An empty block, and block.add(op): the op becomes the block's last child.
Sequence == Operator("Sequence", "", NoNode, <<>>)

DoWhile == Operator("DoWhile", "", NoNode, <<>>)

add(block, op) == [block EXCEPT !.args = Append(@, op)]

\* sorted(self.graph)
RECURSIVE Sorted(_)
Sorted(S) ==
    IF S = {} THEN <<>>
    ELSE LET m == CHOOSE m \in S : \A j \in S : m <= j
         IN  <<m>> \o Sorted(S \ {m})

\* Lines 249-271 from the node order[1] on, with op_stack as it stands.
RECURSIVE StructureFrom(_, _)
StructureFrom(order, op_stack) ==
    IF order = <<>>
    THEN IF Len(op_stack) = 1
         THEN [NoResult EXCEPT !.kind = "plan", !.plan = op_stack[Len(op_stack)]]
         ELSE Raised("AssertionError")
    ELSE LET i == Head(order)
             op == graph_node[i].op
             current_block == op_stack[Len(op_stack)]
         IN  IF ~graph_node[i].present THEN Raised("KeyError")
             ELSE IF out_degree(i) = 2
             THEN IF current_block.kind # "DoWhile" THEN Raised("AssertionError")
                  ELSE LET do_while_op == add(current_block, op)
                           popped == SubSeq(op_stack, 1, Len(op_stack) - 1)
                       IN  StructureFrom(Tail(order),
                              [popped EXCEPT ![Len(popped)] = add(@, do_while_op)])
             ELSE LET pushed == IF in_degree(i) = 2
                                THEN Append(op_stack, DoWhile) ELSE op_stack
                  IN  StructureFrom(Tail(order),
                         [pushed EXCEPT ![Len(pushed)] = add(@, op)])

\* Lines 239-243: the passes the flags ask for, then the structuring.
Passes(dead_code_elimination_flag, apply_chaining_flag) ==
    (IF dead_code_elimination_flag THEN <<"dce">> ELSE <<>>)
    \o (IF apply_chaining_flag THEN <<"chain">> ELSE <<>>)
    \o <<"structure">>

get_logical_plan(dead_code_elimination_flag, apply_chaining_flag) ==
    /\ pc = "idle"
    /\ LET passes == Passes(dead_code_elimination_flag, apply_chaining_flag)
       IN  StartPass(Head(passes), Tail(passes))
    /\ built' = TRUE
    /\ UNCHANGED <<cfg, add_edges, algebra>>

\* Lines 245-271: the walk over the nodes in id order.
structure ==
    /\ pc = "structure"
    /\ Return(StructureFrom(Sorted(Nodes), <<Sequence>>))
    /\ UNCHANGED <<cfg, add_edges, built, algebra>>

\* ------------------------------------------------------------ specifications
\* Building the graph, which comes before the analysis and the rewrites:
\* statements from Stmts, loop back-edges and self-loops.
Build ==
    \/ \E s \in Stmts : ~built /\ next_op_id < MaxNodes /\ add_op(s.def, s.uses)
    \/ \E s \in Nodes, d \in Nodes :
          /\ ~built /\ add_edges < MaxAddEdge
          /\ d <= s /\ <<s, d>> \notin graph_edge
          /\ add_edge(s, d)

\* The analysis and the two rewrites, called in any order on the graph
\* once it is built.
Next ==
    \/ Build
    \/ Nodes # {} /\ compute_liveness
    \/ liveness_round
    \/ Nodes # {} /\ dead_code_elimination
    \/ dce_round
    \/ Nodes # {} /\ apply_chaining
    \/ chain_round

Spec == Init /\ [][Next]_vars

\* The rewrites alone.
RewriteNext ==
    \/ Build
    \/ Nodes # {} /\ dead_code_elimination
    \/ dce_round
    \/ Nodes # {} /\ apply_chaining
    \/ chain_round

RewriteSpec == Init /\ [][RewriteNext]_vars

\* A call of dead_code_elimination that has started runs its loop on: its
\* rounds are taken as long as they are enabled.
DceFairSpec == RewriteSpec /\ WF_vars(dce_round)

\* The same for a call of apply_chaining.
ChainFairSpec == RewriteSpec /\ WF_vars(chain_round)

\* The analysis alone, on graphs with extra edges of any direction.
LiveNext ==
    \/ \E s \in Stmts : ~built /\ next_op_id < MaxNodes /\ add_op(s.def, s.uses)
    \/ \E s \in Nodes, d \in Nodes :
          /\ ~built /\ add_edges < MaxAddEdge
          /\ <<s, d>> \notin graph_edge
          /\ add_edge(s, d)
    \/ Nodes # {} /\ compute_liveness
    \/ liveness_round

LiveSpec == Init /\ [][LiveNext]_vars /\ WF_vars(liveness_round)

\* Loop shapes: statements that read and define nothing, more nodes and
\* edges of any direction, and the structuring pass alone.
PlanNext ==
    \/ next_op_id < PlanNodes /\ add_op(None, {})
    \/ \E s \in Nodes, d \in Nodes :
          add_edges < PlanAddEdge /\ <<s, d>> \notin graph_edge /\ add_edge(s, d)
    \/ get_logical_plan(FALSE, FALSE)
    \/ structure

PlanSpec == Init /\ [][PlanNext]_vars

\* ------------------------------------------------------------------- properties
\* The maps the last call of compute_liveness returned, while the graph is
\* still the one it ran on.
Returned ==
    [has |-> result.kind = "liveness",
     live_in |-> result.live_in, live_out |-> result.live_out]

\* An edge that does not lead to a later node: a loop back-edge or self-loop.
BackEdges == {e \in graph_edge : e[2] <= e[1]}

\* C1: whenever compute_liveness returns (live_in, live_out), on any CFG,
\* loops included, every node n has live_in[n] = uses[n] \cup (live_out[n]
\* minus def[n]) and live_out[n] = the union of live_in over n's successors.
C1_LivenessEquations ==
    LET returned == Returned
    IN  returned.has =>
            \A n \in Nodes :
                /\ returned.live_in[n] =
                      graph_node[n].uses \cup (returned.live_out[n] \ DefSet(n))
                /\ returned.live_out[n] =
                      UNION {returned.live_in[s] : s \in successors(n)}

\* C1's case: the call returned on a CFG with a back-edge, with a variable
\* live around the loop.
C1_Witness ==
    /\ result.kind = "liveness"
    /\ BackEdges # {}
    /\ \E e \in BackEdges : result.live_out[e[1]] # {}
    /\ \E n \in Nodes : graph_node[n].def_var \in result.live_out[n]

\* The control-flow paths of exactly k nodes, as sequences of node ids.
RECURSIVE PathsOfLen(_)
PathsOfLen(k) ==
    IF k = 1
    THEN {<<n>> : n \in Nodes}
    ELSE UNION {{Append(p, m) : m \in successors(p[Len(p)])} : p \in PathsOfLen(k - 1)}

\* The control-flow paths of at most as many nodes as the graph has.
Paths == UNION {PathsOfLen(k) : k \in 1..Cardinality(Nodes)}

\* For each node n, the variables that may be read after n before they are
\* redefined: a path leaves n for a reader of v, and no node on it before the
\* reader defines v.
MayBeUsed ==
    LET all_paths == Paths
    IN  [n \in Nodes |->
            {v \in Vars :
                \E p \in all_paths :
                    /\ p[1] \in successors(n)
                    /\ v \in graph_node[p[Len(p)]].uses
                    /\ \A j \in 1..(Len(p) - 1) : graph_node[p[j]].def_var # v}]

MayBeUsedAfter(n, v) == v \in MayBeUsed[n]

\* The chain n0: def x -> n1: def y, uses {x} -> n2: uses {y}.
IsSpecChain ==
    /\ Nodes = {0, 1, 2}
    /\ graph_edge = {<<0, 1>>, <<1, 2>>}
    /\ graph_node[0].def_var = "x" /\ graph_node[0].uses = {}
    /\ graph_node[1].def_var = "y" /\ graph_node[1].uses = {"x"}
    /\ graph_node[2].def_var = None /\ graph_node[2].uses = {"y"}

\* C2: the live_out compute_liveness returns is exactly may-be-used: v is in
\* live_out[n] iff some path from a successor of n reaches a reader of v
\* with no definition of v before it; on the chain above live_out is
\* {x}, {y}, {}.
C2_MayBeUsed ==
    LET returned == Returned
    IN  returned.has =>
            /\ returned.live_out = MayBeUsed
            /\ IsSpecChain =>
                  returned.live_out = (0 :> {"x"}) @@ (1 :> {"y"}) @@ (2 :> {})

\* C2's case: the call returned on the chain of the example.
C2_Witness ==
    /\ result.kind = "liveness"
    /\ IsSpecChain
    /\ result.live_out[0] = {"x"}

\* C3: compute_liveness terminates on every CFG, loops and self-loops
\* included: no call stays in its rounds for ever; whenever one is running,
\* it comes to return.
C3_LivenessTerminates == []<>(pc # "liveness")

\* C3's case: the call is in a round that changes the maps, on a CFG with a
\* self-loop.
C3_Witness ==
    /\ pc = "liveness"
    /\ \E n \in Nodes : <<n, n>> \in graph_edge
    /\ ~Converged(live_in, live_out)
    /\ live_out # InitLiveOut

\* The variable node n defines, its uses set, and the next surviving node
\* in id order (NoNode after the last).
DefVar(n) == graph_node[n].def_var

Uses(n) == graph_node[n].uses

NextSurvivor(n) ==
    LET later == {m \in Nodes : m > n}
    IN  IF later = {} THEN NoNode ELSE CHOOSE m \in later : \A j \in later : m <= j

\* No operator of the graph has been inlined into.
NothingFused == \A n \in Nodes : graph_node[n].op = StmtOp(n, DefVar(n), Uses(n))

\* C4: dead_code_elimination deletes a node only if it defines a variable
\* that is not in its live_out under liveness computed on the graph as it is
\* just before the deletion; a node that defines nothing, or whose variable
\* may still be read (through a back-edge too), stays.
C4_DceDeletesOnlyDead ==
    [][pc = "dce" =>
        \A n \in Nodes :
            /\ n \notin Nodes' =>
                  /\ DefVar(n) # None
                  /\ DefVar(n) \notin Liveness.live_out[n]
            /\ (DefVar(n) = None \/ MayBeUsedAfter(n, DefVar(n))) => n \in Nodes']_vars

\* C4's case: a round of dead_code_elimination is about to delete a node
\* while a store and the last node, whose variable is live only around a
\* back-edge, are in the graph.
C4_Witness ==
    /\ pc = "dce"
    /\ \E n \in Nodes : DceDeletes(n, Liveness.live_out)
    /\ \E n \in Nodes : DefVar(n) = None
    /\ \E n \in Nodes :
          /\ NextSurvivor(n) = NoNode
          /\ DefVar(n) # None
          /\ DefVar(n) \in Liveness.live_out[n]

\* No node defines a variable that is dead right after it.
NoDeadDef ==
    LET out_set == Liveness.live_out
    IN  \A n \in Nodes : DefVar(n) # None => DefVar(n) \in out_set[n]

\* C5: dead_code_elimination terminates (no call stays in its loop for
\* ever: at any time the loop is later left); each round of its loop removes
\* exactly one node or ends the call, and the graph the call leaves has no
\* node whose variable is absent from its live_out (computed on that graph).
C5_DceConverges ==
    /\ []<>(pc # "dce")
    /\ [][pc = "dce" =>
            \/ /\ pc' = "dce"
               /\ \E n \in Nodes : Nodes' = Nodes \ {n}
            \/ /\ pc' = "idle"
               /\ result'.kind = "None"
               /\ UNCHANGED cfg
               /\ NoDeadDef]_vars

\* C5's case: the last round of a call that has deleted two nodes.
C5_Witness ==
    /\ pc = "dce"
    /\ NothingFused
    /\ Cardinality(Nodes) + 2 <= next_op_id
    /\ NoDeadDef

\* Neighbours in sorted_vertices are joined by a control-flow edge.
ChainConnected ==
    \A k \in 1..(Len(sorted_vertices) - 1) :
        <<sorted_vertices[k], sorted_vertices[k + 1]>> \in graph_edge

\* C6: a deletion (by either rewrite) gives every predecessor of the node an
\* edge to the next surviving node in id order and takes the node out of
\* graph and sequence; the surviving chain stays connected end to end.
C6_DeleteReroutes ==
    [][/\ ChainConnected'
       /\ \A n \in Nodes :
            n \notin Nodes' =>
               /\ Nodes' = Nodes \ {n}
               /\ sorted_vertices' = Sorted(Nodes')
               /\ \A e \in graph_edge' : e[1] # n /\ e[2] # n
               /\ \A e \in graph_edge : e[1] # n /\ e[2] # n => e \in graph_edge'
               /\ \A p \in predecessors(n) \ {n} :
                     NextSurvivor(n) # NoNode => <<p, NextSurvivor(n)>> \in graph_edge'
               /\ graph_edge' \subseteq
                     graph_edge \cup {<<p, NextSurvivor(n)>> : p \in predecessors(n)}]_vars

\* C6's case: the middle node is gone, its successor had a back-edge to it,
\* and the two survivors are joined.
C6_Witness ==
    /\ Nodes = {0, 2}
    /\ sorted_vertices = <<0, 2>>
    /\ <<0, 2>> \in graph_edge
    /\ <<2, 2>> \in graph_edge
    /\ add_edges = 1 /\ built

\* The round of apply_chaining that is being taken fuses node a into node b.
Fused(a, b) ==
    /\ pc = "chain"
    /\ a \notin Nodes'
    /\ b \in Nodes'
    /\ graph_node'[b] # graph_node[b]

\* C7: apply_chaining fuses A into B only when A directly precedes B in
\* surviving id order, B's in-degree is not 2, A defines a variable v, v is
\* in uses[B] and v is not in live_out[B] under liveness computed on the
\* graph as it is at that moment; every node it removes is fused this way.
C7_FusesOnlyWhen ==
    [][pc = "chain" =>
        /\ \A a \in Nodes : a \notin Nodes' => Fused(a, NextSurvivor(a))
        /\ \A a, b \in Nodes :
              Fused(a, b) =>
                 /\ b = NextSurvivor(a)
                 /\ in_degree(b) # 2
                 /\ DefVar(a) # None
                 /\ DefVar(a) \in Uses(b)
                 /\ DefVar(a) \notin Liveness.live_out[b]]_vars

\* The three conditions on variables hold for the pair at position k.
FeedsOnly(k) ==
    LET a == sorted_vertices[k]
        b == sorted_vertices[k + 1]
    IN  /\ DefVar(a) # None
        /\ DefVar(a) \in Uses(b)
        /\ DefVar(a) \notin Liveness.live_out[b]

\* C7's case: a round meets a pair that only B's in-degree of 2 keeps from
\* fusing, and a later pair that fuses.
C7_Witness ==
    /\ pc = "chain"
    /\ \E k, j \in 1..(Len(sorted_vertices) - 1) :
          /\ k < j
          /\ FeedsOnly(k) /\ in_degree(sorted_vertices[k + 1]) = 2
          /\ FeedsOnly(j) /\ in_degree(sorted_vertices[j + 1]) # 2

\* The temporaries an operator tree scans, and the statements it is made of.
RECURSIVE ScannedTemps(_)
ScannedTemps(op) ==
    IF op.kind = "ScanTemp" THEN {op.name}
    ELSE UNION {ScannedTemps(op.args[k]) : k \in 1..Len(op.args)}

RECURSIVE StmtsOf(_)
StmtsOf(op) ==
    (IF op.stmt = NoNode THEN {} ELSE {op.stmt})
    \cup UNION {StmtsOf(op.args[k]) : k \in 1..Len(op.args)}

\* The spec's example pair: A is "x = f()", B is "store g(x)".
IsScanDistinct(a, b) ==
    /\ graph_node[a].op = StoreTemp("x", a, Operator("Apply", "", a, <<>>))
    /\ graph_node[b].op = Store(b, Operator("Apply", "", b, <<ScanTemp("x")>>))

\* C8: a fusion of A (defining v) into B leaves one node for the two: A is
\* gone from graph and sequence, nothing else changes but B and the edges,
\* B keeps its id, its defined variable and the top of its operator, B's
\* operator is its former operator with the input of A's StoreTemp in place
\* of the scans of v (so it scans exactly the new uses, and the example pair
\* gives g(f())), uses[B] is (uses[B] - {v}) \cup uses[A], and every
\* predecessor of A has an edge to B.
C8_FusionResult ==
    [][\A a, b \in Nodes :
         Fused(a, b) =>
            LET v == DefVar(a)
                inner == graph_node[a].op.args[1]
                new == graph_node'[b]
            IN  /\ Nodes' = Nodes \ {a}
                /\ sorted_vertices' = Sorted(Nodes')
                /\ \A n \in Nodes' \ {b} : graph_node'[n] = graph_node[n]
                /\ graph_node[a].op.kind = "StoreTemp"
                /\ new.present
                /\ new.def_var = DefVar(b)
                /\ new.op.kind = graph_node[b].op.kind
                /\ new.op.name = graph_node[b].op.name
                /\ new.op.stmt = graph_node[b].op.stmt
                /\ new.op = inline_operator(graph_node[b].op, v, inner)
                /\ StmtsOf(new.op) = StmtsOf(graph_node[b].op) \cup StmtsOf(inner)
                /\ ScannedTemps(new.op) = new.uses
                /\ new.uses = (Uses(b) \ {v}) \cup Uses(a)
                /\ IsScanDistinct(a, b) =>
                      new.op = Store(b, Operator("Apply", "", b,
                                            <<Operator("Apply", "", a, <<>>)>>))
                /\ \A p \in predecessors(a) \ {a} : <<p, b>> \in graph_edge'
                /\ \A e \in graph_edge' : e[1] # a /\ e[2] # a]_vars

\* C8's case: "x = f()" has been fused into "store g(x)" behind a store that
\* stays, whose edge now leads to the fused node.
C8_Witness ==
    /\ Nodes = {0, 2}
    /\ graph_node[2].op =
          Store(2, Operator("Apply", "", 2, <<Operator("Apply", "", 1, <<>>)>>))
    /\ graph_node[2].uses = {}
    /\ graph_node[0].def_var = None
    /\ <<0, 2>> \in graph_edge

\* No pair of neighbours in surviving id order passes the four conditions,
\* under liveness computed on the graph as it stands.
NoFusablePair ==
    LET out_set == Liveness.live_out
    IN  \A k \in 1..(Len(sorted_vertices) - 1) :
            LET a == sorted_vertices[k]
                b == sorted_vertices[k + 1]
            IN  ~ /\ in_degree(b) # 2
                  /\ DefVar(a) # None
                  /\ DefVar(a) \in Uses(b)
                  /\ DefVar(a) \notin out_set[b]

\* C9: apply_chaining terminates (no call stays in its loop for ever: at
\* any time the loop is later left); each round of its loop makes exactly one
\* fusion, of the first pair that passes under liveness computed on the
\* graph of that round, and goes round again, or ends the call with the
\* graph as it is and no pair left that passes the four conditions.
C9_ChainingConverges ==
    /\ []<>(pc # "chain")
    /\ [][pc = "chain" =>
            \/ /\ pc' = "chain"
               /\ \E a \in Nodes :
                     /\ Nodes' = Nodes \ {a}
                     /\ Fused(a, NextSurvivor(a))
                     /\ ~NoFusablePair
                     /\ \A c \in Nodes :
                           c < a =>
                              \/ NextSurvivor(c) = NoNode
                              \/ in_degree(NextSurvivor(c)) = 2
                              \/ DefVar(c) = None
                              \/ DefVar(c) \notin Uses(NextSurvivor(c))
                              \/ DefVar(c) \in Liveness.live_out[NextSurvivor(c)]
            \/ /\ pc' = "idle"
               /\ result'.kind = "None"
               /\ UNCHANGED cfg
               /\ NoFusablePair]_vars

\* C9's case: the last round of a call that has fused three statements into
\* one node.
C9_Witness ==
    /\ pc = "chain"
    /\ NoFusablePair
    /\ \E n \in Nodes : {0, 1, 2} \subseteq StmtsOf(graph_node[n].op)

\* The loop markers are balanced: walking the nodes in id order, a node of
\* in-degree 2 opens a loop, a node of out-degree 2 closes the innermost
\* open one, no node closes a loop that is not open and none stays open.
RECURSIVE MarkersBalancedFrom(_, _)
MarkersBalancedFrom(order, depth) ==
    IF order = <<>> THEN depth = 0
    ELSE LET i == Head(order)
             opened == IF in_degree(i) = 2 THEN depth + 1 ELSE depth
         IN  IF out_degree(i) = 2
             THEN opened > 0 /\ MarkersBalancedFrom(Tail(order), opened - 1)
             ELSE MarkersBalancedFrom(Tail(order), opened)

Balanced == MarkersBalancedFrom(Sorted(Nodes), 0)

\* A block of the given kind holding items.
Block(kind, items) == Operator(kind, "", NoNode, items)

\* The plan the markers describe, from node order[1] on: blocks is the stack
\* of open blocks, each the sequence of what it holds so far. A header opens
\* a block and is its first item; a terminator is the last item of the
\* innermost block, which then becomes an item of the block around it.
RECURSIVE NestedFrom(_, _)
NestedFrom(order, blocks) ==
    IF order = <<>> THEN Block("Sequence", blocks[1])
    ELSE LET i == Head(order)
             opened == IF in_degree(i) = 2 THEN Append(blocks, <<>>) ELSE blocks
             held == [opened EXCEPT ![Len(opened)] = Append(@, graph_node[i].op)]
             outer == SubSeq(held, 1, Len(held) - 1)
         IN  IF out_degree(i) = 2
             THEN NestedFrom(Tail(order),
                     [outer EXCEPT ![Len(outer)] =
                         Append(@, Block("DoWhile", held[Len(held)]))])
             ELSE NestedFrom(Tail(order), held)

\* The nodes' operators of a plan, left to right.
RECURSIVE Flatten(_)
Flatten(op) ==
    IF op.kind \in {"Sequence", "DoWhile"}
    THEN LET RECURSIVE Concat(_)
             Concat(k) == IF k > Len(op.args) THEN <<>>
                          ELSE Flatten(op.args[k]) \o Concat(k + 1)
         IN  Concat(1)
    ELSE <<op>>

\* The structuring pass returns the plan the markers describe: one Sequence
\* with every node's operator once, in id order, and the loops nested as the
\* markers pair up.
ReturnsNestedPlan ==
    /\ result'.kind = "plan"
    /\ result'.plan.kind = "Sequence"
    /\ Flatten(result'.plan) =
          [k \in 1..Len(sorted_vertices) |-> graph_node[sorted_vertices[k]].op]
    /\ result'.plan = NestedFrom(Sorted(Nodes), <<<<>>>>)

\* Some node is both a loop header and a loop terminator.
DoubleMarker == \E i \in Nodes : in_degree(i) = 2 /\ out_degree(i) = 2

StructuresSingleMarkers ==
    [][pc = "structure" /\ Balanced /\ ~DoubleMarker => ReturnsNestedPlan]_vars

\* A balanced CFG with a node that is both header and terminator makes the
\* pass fail its assertion.
DoubleMarkerAsserts ==
    [][pc = "structure" /\ Balanced /\ DoubleMarker =>
          result'.kind = "AssertionError"]_vars

\* Loops are structured: a returned plan with a DoWhile inside a DoWhile.
NestedLoopsReturned ==
    /\ result.kind = "plan"
    /\ \E k \in 1..Len(result.plan.args) :
          /\ result.plan.args[k].kind = "DoWhile"
          /\ \E j \in 1..Len(result.plan.args[k].args) :
                result.plan.args[k].args[j].kind = "DoWhile"

UnbalancedSingleMarkersFail ==
    [][pc = "structure" /\ ~Balanced /\ ~DoubleMarker =>
          result'.kind = "AssertionError"]_vars

\* The pass returns a plan exactly when the markers are balanced with a
\* node that is both header and terminator counted as a terminator only.
RECURSIVE TerminatorFirstFrom(_, _)
TerminatorFirstFrom(order, depth) ==
    IF order = <<>> THEN depth = 0
    ELSE LET i == Head(order)
         IN  IF out_degree(i) = 2
             THEN depth > 0 /\ TerminatorFirstFrom(Tail(order), depth - 1)
             ELSE TerminatorFirstFrom(Tail(order),
                     IF in_degree(i) = 2 THEN depth + 1 ELSE depth)

ReturnsIffTerminatorFirst ==
    [][pc = "structure" =>
          (result'.kind = "plan" <=> TerminatorFirstFrom(Sorted(Nodes), 0))]_vars

\* ------------------------------------------------------------ calls in any order
\* add_op and add_edge (between ids of the graph) may also come after a
\* rewrite has run.
AnyNext ==
    \/ \E s \in Stmts : next_op_id < MaxNodes /\ add_op(s.def, s.uses)
    \/ \E s \in Nodes, d \in Nodes :
          /\ add_edges < MaxAddEdge
          /\ d <= s /\ <<s, d>> \notin graph_edge
          /\ add_edge(s, d)
    \/ Nodes # {} /\ dead_code_elimination
    \/ dce_round
    \/ Nodes # {} /\ apply_chaining
    \/ chain_round

AnySpec == Init /\ [][AnyNext]_vars

\* The step is a call of add_op.
IsAddOp == next_op_id' = next_op_id + 1

\* What a call of add_op does for the statement s: the node next_op_id is
\* new, it is the only node that comes into the graph, it is appended with
\* its operator, defined variable and uses, and the only edge added is the
\* one from the node before it.
AddsNode(s) ==
    LET op_id == next_op_id
    IN  /\ \A n \in Nodes : n < op_id
        /\ Nodes' = Nodes \cup {op_id}
        /\ \A n \in Nodes : graph_node'[n] = graph_node[n]
        /\ graph_node'[op_id] = Attr(StmtOp(op_id, s.def, s.uses), s.def, s.uses)
        /\ sorted_vertices' = Append(sorted_vertices, op_id)
        /\ graph_edge' = graph_edge \cup
              (IF op_id > 0 THEN {<<op_id - 1, op_id>>} ELSE {})

\* C12: every add_op call takes the next id in creation order (0, 1, 2, ...;
\* no id comes into the graph twice, also after deletions), appends the node
\* with its operator, defined variable and uses set, and for every node but
\* the first adds the edge from the previous node to the new one; ids change
\* in no other way.
C12_AddOpAppends ==
    [][/\ next_op_id' \in {next_op_id, next_op_id + 1}
       /\ IsAddOp => \E s \in Stmts : AddsNode(s)]_vars

\* What the code does keep of C12: the same, for every call made while the
\* node created last is still in the graph.
AddOpWhenPreviousSurvives ==
    [][/\ next_op_id' \in {next_op_id, next_op_id + 1}
       /\ IsAddOp /\ (next_op_id = 0 \/ next_op_id - 1 \in Nodes) =>
             \E s \in Stmts : AddsNode(s)]_vars

\* An add_op made after the node created last was deleted brings the
\* deleted id back, as a node without attributes.
DeletedIdComesBack ==
    [][IsAddOp /\ next_op_id > 0 /\ next_op_id - 1 \notin Nodes =>
          /\ next_op_id - 1 \in Nodes'
          /\ graph_node'[next_op_id - 1] = NoAttr]_vars

\* ------------------------------------------------------ raco.algebra objects
\* Most operator objects a run creates.
MaxOps == 3

\* Scalar field values (a condition, a relation key with its scheme, a
\* server, a trace pair, a bound symbol) are 1..MaxKey.
MaxKey == 2

Keys == 1..MaxKey

\* The classes of the model, by the base class whose methods they inherit.
Zeroary == {"Scan", "EmptyRelation", "SingletonRelation"}

Unary == {"Select", "Project", "GroupBy", "Apply", "Store", "Collect", "PartitionBy"}

Binary == {"Join", "UnionAll"}

Nary == {"NaryJoin"}

Classes == Zeroary \cup Unary \cup Binary \cup Nary \cup {"Fixpoint"}

\* Classes with a scalar field of their own: Scan.relation_key (with
\* _scheme), EmptyRelation._scheme, Select.condition, Store.relation_key,
\* Collect.server, Join.condition.
HasKey == {"Scan", "EmptyRelation", "Select", "Store", "Collect", "Join"}

\* Classes with a list field of their own: columnlist, or Apply.mappings.
HasCols == {"Project", "GroupBy", "Apply", "PartitionBy"}

\* Classes whose __init__ never reaches Operator.__init__.
NoOperatorInit == {"EmptyRelation", "Fixpoint"}

\* The objects created so far.
Ops == 1..Len(heap)

\* self.children(): [], [input], [left, right], args or [body].
children(o) ==
    IF heap[o].cls \in Nary THEN lists[heap[o].args] ELSE heap[o].kids

\* The constructor call cls(...): the new object, its list field referring
\* to the list the caller passed, and the bookkeeping of Operator.__init__
\* where the class calls it.
New(cls, key, cols, kids) ==
    LET o == Len(heap) + 1
        passed == IF cls \in HasCols THEN <<cols>>
                  ELSE IF cls \in Nary THEN <<kids>> ELSE <<>>
        inits == cls \notin NoOperatorInit
        obj == [cls |-> cls,
                kids |-> IF cls \in Nary THEN <<>> ELSE kids,
                args |-> IF cls \in Nary THEN Len(lists) + 1 ELSE 0,
                key |-> IF cls \in HasKey THEN key ELSE 0,
                cols |-> IF cls \in HasCols THEN Len(lists) + 1 ELSE 0,
                trace |-> IF inits THEN Len(lists) + Len(passed) + 1 ELSE 0,
                bound |-> IF inits THEN "None" ELSE "missing",
                cleanup |-> IF inits THEN "" ELSE "missing",
                alias |-> IF inits THEN "self" ELSE "missing"]
    IN  /\ Len(heap) < MaxOps
        /\ heap' = Append(heap, obj)
        /\ lists' = lists \o passed \o (IF inits THEN <<<<>>>> ELSE <<>>)
        /\ ret' = NoRet
        /\ UNCHANGED control

\* The children a constructor call of cls may be given.
KidLists(cls) ==
    IF cls \in Zeroary THEN {<<>>}
    ELSE IF cls \in Binary THEN {<<l, r>> : l \in Ops, r \in Ops}
    ELSE IF cls \in Nary THEN {<<>>} \cup {<<a>> : a \in Ops}
                                  \cup {<<a, b>> : a \in Ops, b \in Ops}
    ELSE {<<c>> : c \in Ops}

\* ---------------------------------------------------------------- equality
Bool(b) == IF b THEN "True" ELSE "False"

\* x and y of Python, y standing for an expression evaluated only when x is
\* true; an exception raised by x goes through.
And(x, y) == IF x = "True" THEN y ELSE x

\* Faulty variant of Operator_eq: the bound symbol is compared too.
Operator_eq_Bound(a, b) ==
    Bool(heap[a].cls = heap[b].cls /\ heap[a].bound = heap[b].bound)

\* Operator.__eq__, which ZeroaryOperator.__eq__ repeats and every class
\* without __eq__ of its own or of its base inherits.
Operator_eq(a, b) == Bool(heap[a].cls = heap[b].cls)

\* a == b, by the __eq__ of a's class.
RECURSIVE eq(_, _)
UnaryOperator_eq(a, b) ==
    And(Operator_eq(a, b), eq(heap[a].kids[1], heap[b].kids[1]))

BinaryOperator_eq(a, b) ==
    And(And(Operator_eq(a, b), eq(heap[a].kids[1], heap[b].kids[1])),
        eq(heap[a].kids[2], heap[b].kids[2]))

eq(a, b) ==
    LET cls == heap[a].cls
    IN  IF cls = "Scan" THEN
            And(Operator_eq(a, b), Bool(heap[a].key = heap[b].key))
        ELSE IF cls = "Select" THEN
            And(UnaryOperator_eq(a, b), Bool(heap[a].key = heap[b].key))
        ELSE IF cls \in {"Project", "PartitionBy"} THEN
            And(UnaryOperator_eq(a, b),
                Bool(lists[heap[a].cols] = lists[heap[b].cols]))
        ELSE IF cls = "Apply" THEN
            And(UnaryOperator_eq(a, b), "AttributeError")
        ELSE IF cls = "Join" THEN
            And(BinaryOperator_eq(a, b), Bool(heap[a].key = heap[b].key))
        ELSE IF cls \in Unary THEN UnaryOperator_eq(a, b)
        ELSE IF cls \in Binary THEN BinaryOperator_eq(a, b)
        ELSE Operator_eq(a, b)

\* The call self == other. It changes no object, so a comparison right
\* after a comparison would reach nothing new and is left out.
Equals(self, other) ==
    /\ ret.call # "eq"
    /\ ret' = [NoRet EXCEPT !.call = "eq", !.val = eq(self, other),
                            !.self = self, !.other = other]
    /\ UNCHANGED <<heap, lists, control>>

\* Operators are constructed over the existing ones and compared.
Construct ==
    \E cls \in Classes, key \in Keys :
        \E kids \in KidLists(cls) : New(cls, key, <<key>>, kids)

EqNext ==
    \/ Construct
    \/ \E self \in Ops, other \in Ops : Equals(self, other)

EqSpec == Init /\ [][EqNext]_vars

\* a and b have the same variant, structurally equal children in the same
\* order, and equal fields of their variant (a list field by its items).
RECURSIVE SameStructure(_, _)
SameStructure(a, b) ==
    /\ heap[a].cls = heap[b].cls
    /\ Len(children(a)) = Len(children(b))
    /\ \A i \in 1..Len(children(a)) : SameStructure(children(a)[i], children(b)[i])
    /\ heap[a].key = heap[b].key
    /\ (heap[a].cols # 0) => lists[heap[a].cols] = lists[heap[b].cols]

\* C13: self == other is True when the two have the same variant, equal
\* children and equal variant fields, and False otherwise, for every variant.
C13_EqualityIsStructural ==
    ret.call = "eq" => ret.val = Bool(SameStructure(ret.self, ret.other))

\* What the code does keep of C13: the variants whose __eq__ compares all
\* of their fields, over children of such variants.
ComparesAllFields ==
    {"Scan", "SingletonRelation", "Select", "Project", "PartitionBy", "Join",
     "UnionAll"}

RECURSIVE AllCompared(_)
AllCompared(o) ==
    /\ heap[o].cls \in ComparesAllFields
    /\ \A i \in 1..Len(children(o)) : AllCompared(children(o)[i])

EqualityStructuralWhereCompared ==
    ret.call = "eq" /\ AllCompared(ret.self) =>
        ret.val = Bool(SameStructure(ret.self, ret.other))

\* Two Store nodes over one input with different relation keys are equal.
StoreKeysIgnored ==
    /\ ret.call = "eq" /\ ret.val = "True"
    /\ heap[ret.self].cls = "Store" /\ heap[ret.other].cls = "Store"
    /\ heap[ret.self].key # heap[ret.other].key

\* Comparing an Apply node with an Apply node over an equal input raises.
ApplyEqualityRaises ==
    /\ ret.call = "eq" /\ ret.val = "AttributeError"
    /\ heap[ret.self].cls = "Apply"

\* -------------------------------------------------------------- bookkeeping
\* Most bookkeeping calls and assignments of a run.
MaxMarks == 1

RECURSIVE MarksFrom(_)
MarksFrom(o) ==
    IF o = 0 THEN 0
    ELSE MarksFrom(o - 1)
         + (IF heap[o].bound \in {"None", "missing"} THEN 0 ELSE 1)
         + (IF heap[o].cleanup \in {"", "missing"} THEN 0 ELSE 1)
         + (IF heap[o].alias \in {"self", "missing"} THEN 0 ELSE 1)
         + (IF heap[o].trace = 0 THEN 0 ELSE Len(lists[heap[o].trace]))

\* The bookkeeping done so far.
Marks == MarksFrom(Len(heap))

\* self.set_alias(alias)
set_alias(self, alias) ==
    /\ heap' = [heap EXCEPT ![self].alias = alias]
    /\ ret' = NoRet
    /\ UNCHANGED <<lists, control>>

\* self.trace(key, val): without Operator.__init__ there is no _trace.
trace(self, pair) ==
    /\ IF heap[self].trace = 0
       THEN /\ ret' = [NoRet EXCEPT !.call = "trace", !.val = "AttributeError",
                                    !.self = self]
            /\ UNCHANGED lists
       ELSE /\ lists' = [lists EXCEPT ![heap[self].trace] = Append(@, pair)]
            /\ ret' = NoRet
    /\ UNCHANGED <<heap, control>>

\* self.bound = sym
set_bound(self, sym) ==
    /\ heap' = [heap EXCEPT ![self].bound = sym]
    /\ ret' = NoRet
    /\ UNCHANGED <<lists, control>>

\* self.cleanup = code
set_cleanup(self, code) ==
    /\ heap' = [heap EXCEPT ![self].cleanup = code]
    /\ ret' = NoRet
    /\ UNCHANGED <<lists, control>>

\* One bookkeeping call or assignment on some operator.
Bookkeeping ==
    /\ Marks < MaxMarks
    /\ \E self \in Ops :
          \/ set_alias(self, "A1")
          \/ trace(self, 1)
          \/ set_bound(self, "V1")
          \/ set_cleanup(self, "free")

\* The variants built where bookkeeping is looked at, LogicalAlgebra's: a
\* leaf, a unary and a binary one, each comparing a field of its own; all
\* are given the same relation key or condition. Two different operators
\* are compared, the one created first on the left.
BookClasses == {"Scan", "Select", "Join"}

BookNext ==
    \/ \E cls \in BookClasses :
          \E kids \in KidLists(cls) : New(cls, 1, <<>>, kids)
    \/ Bookkeeping
    \/ \E self \in Ops, other \in Ops : self < other /\ Equals(self, other)

BookSpec == Init /\ [][BookNext]_vars

\* C14: a bookkeeping step (set_alias, trace, an assignment to bound or
\* cleanup) on any operator leaves every pair of equal operators equal.
C14_EqualityIgnoresBookkeeping ==
    [][heap' # heap \/ lists' # lists =>
          (Len(heap') = Len(heap) =>
              \A a \in Ops, b \in Ops :
                  eq(a, b) = "True" => eq(a, b)' = "True")]_vars

\* Two distinct operators were compared and found equal although the
\* bookkeeping of one of them or of one of its children had been changed.
RECURSIVE Marked(_)
Marked(o) ==
    \/ heap[o].bound # "None" \/ heap[o].cleanup # "" \/ heap[o].alias # "self"
    \/ lists[heap[o].trace] # <<>>
    \/ \E i \in 1..Len(children(o)) : Marked(children(o)[i])

C14_Witness ==
    /\ ret.call = "eq" /\ ret.val = "True" /\ ret.self # ret.other
    /\ Marked(ret.self)

\* --------------------------------------------------------------------- copy
\* Most copy calls of a run.
MaxCopies == 1

\* The lists the constructor of o's class allocated.
RECURSIVE ConstructedFrom(_)
ConstructedFrom(o) ==
    IF o = 0 THEN 0
    ELSE ConstructedFrom(o - 1)
         + (IF heap[o].cls \in HasCols \cup Nary THEN 1 ELSE 0)
         + (IF heap[o].cls \in NoOperatorInit THEN 0 ELSE 1)

\* The copy calls that have built a list so far.
Copies == Len(lists) - ConstructedFrom(Len(heap))

\* The call has returned val (or raised it) on self, given other.
Called(call, val, self, other) ==
    [NoRet EXCEPT !.call = call, !.val = val, !.self = self, !.other = other]

\* Operator.copy, on the fields of self: _trace becomes a new list (the
\* next one allocated) and bound is None.
Operator_copy(obj, other) ==
    [obj EXCEPT !.trace = Len(lists) + 1, !.bound = "None"]

\* The assignments of the copy methods of the unary and binary classes
\* before they reach Operator.copy: the children and the class's own field,
\* a list field referring to other's list.
FieldsOf(obj, other) ==
    [obj EXCEPT !.kids = heap[other].kids, !.key = heap[other].key,
                !.cols = heap[other].cols]

\* The operators of the plan under o, o included.
RECURSIVE PlanOf(_)
PlanOf(o) ==
    {o} \cup UNION {PlanOf(children(o)[i]) : i \in 1..Len(children(o))}

\* self.copy(other), self and other being two objects of one class, self
\* no part of other's plan.
copy(self, other) ==
    LET cls == heap[self].cls
    IN  /\ self \notin PlanOf(other) /\ heap[other].cls = cls
        /\ Copies < MaxCopies
        /\ IF cls = "SingletonRelation" THEN
               /\ ret' = Called("copy", "None", self, other)
               /\ UNCHANGED <<heap, lists>>
           ELSE IF cls = "EmptyRelation" THEN
               /\ heap' = [heap EXCEPT ![self].key = heap[other].key]
               /\ ret' = Called("copy", "None", self, other)
               /\ UNCHANGED lists
           ELSE IF heap[other].trace = 0 THEN
               /\ ret' = Called("copy", "AttributeError", self, other)
               /\ UNCHANGED <<heap, lists>>
           ELSE IF cls \in Nary THEN
               /\ heap' = [heap EXCEPT ![self] =
                     [Operator_copy(heap[self], other) EXCEPT
                         !.args = Len(lists) + 1, !.trace = Len(lists) + 2]]
               /\ lists' = lists \o <<lists[heap[other].args],
                                      lists[heap[other].trace]>>
               /\ ret' = Called("copy", "None", self, other)
           ELSE
               /\ heap' = [heap EXCEPT ![self] =
                     Operator_copy(FieldsOf(heap[self], other), other)]
               /\ lists' = Append(lists, lists[heap[other].trace])
               /\ ret' = Called("copy", "None", self, other)
        /\ UNCHANGED control

\* The list fields an object of class cls has.
ListFields(cls) ==
    (IF cls \in HasCols THEN {"cols"} ELSE {})
        \cup (IF cls \in Nary THEN {"args"} ELSE {})
        \cup {"trace"}

\* The longest list of a run: one item more than bookkeeping can give.
MaxLen == MaxMarks + 1

\* field.append(item) on a list field of the object just made a copy; an
\* operator appended to args is one whose plan self is no part of.
append(field, item) ==
    /\ ret.call = "copy" /\ ret.val = "None"
    /\ field = "args" => ret.self \notin PlanOf(item)
    /\ field \in ListFields(heap[ret.self].cls)
    /\ heap[ret.self][field] # 0
    /\ Len(lists[heap[ret.self][field]]) < MaxLen
    /\ lists' = [lists EXCEPT ![heap[ret.self][field]] = Append(@, item)]
    /\ ret' = [ret EXCEPT !.call = "append", !.val = field]
    /\ UNCHANGED <<heap, control>>

\* The variants built where copy is looked at: each copy method's shape.
CopyClasses ==
    {"Scan", "SingletonRelation", "EmptyRelation", "Project", "Apply",
     "NaryJoin", "Fixpoint"}

CopyNext ==
    \/ \E cls \in CopyClasses, key \in Keys :
          \E kids \in KidLists(cls) : New(cls, key, <<key>>, kids)
    \/ Bookkeeping
    \/ \E self \in Ops, other \in Ops : copy(self, other)
    \/ \E field \in {"cols", "args", "trace"} : append(field, 1)

CopySpec == Init /\ [][CopyNext]_vars

\* The value of o's trace log; a list no operator can hold where o has none.
TraceOf(o) == IF heap[o].trace = 0 THEN <<0>> ELSE lists[heap[o].trace]

\* The lists o's fields refer to.
ListsOf(o) == {heap[o].cols, heap[o].args, heap[o].trace} \ {0}

\* The call self.copy(other) of this step did what copy is to do.
CopyCarries ==
    \A self \in Ops, other \in Ops :
        ret'.self = self /\ ret'.other = other =>
        /\ ret'.val = "None"
        /\ SameStructure(self, other)'
        /\ TraceOf(self)' = TraceOf(other)' /\ heap'[self].trace # 0
        /\ heap'[self].bound = "None"
        /\ heap'[other] = heap[other]
        /\ \A l \in ListsOf(other) : lists'[l] = lists[l]

\* C15: after self.copy(other), for every variant, self is structurally
\* equal to other, with other's fields and a trace log equal to other's,
\* its bound is None, and other is as it was.
C15_CopyCarries == [][ret'.call = "copy" => CopyCarries]_vars

\* What the code does keep of C15: the same for the variants whose copy
\* reaches Operator.copy on an initialised other.
CopyCarriesWhereImplemented ==
    [][ret'.call = "copy"
         /\ heap[ret'.self].cls \notin {"SingletonRelation", "EmptyRelation", "Fixpoint"}
       => CopyCarries]_vars

\* A SingletonRelation was copied onto one with another trace or bound and
\* kept them.
SingletonCopyDoesNothing ==
    /\ ret.call = "copy" /\ heap[ret.self].cls = "SingletonRelation"
    /\ \/ TraceOf(ret.self) # TraceOf(ret.other)
       \/ heap[ret.self].bound # "None"

\* The append of this step, made on a list field of the copy, left every
\* list of the operator it was copied from as it was.
OtherUntouched ==
    \A other \in Ops :
        ret.other = other => \A l \in ListsOf(other) : lists'[l] = lists[l]

\* C16: after self.copy(other), an append to a list field of self (the trace
\* log, args, a column list, mappings) changes no list field of other.
C16_CopyIndependent == [][ret'.call = "append" => OtherUntouched]_vars

\* What the code does keep of C16: the trace log and args of the copy are
\* lists of its own.
TraceAndArgsIndependent ==
    [][ret'.call = "append" /\ ret'.val \in {"trace", "args"} =>
          OtherUntouched]_vars

\* The column list (or mappings) of the copy is the list of the original.
ColumnListShared ==
    /\ ret.call = "append" /\ ret.val = "cols"
    /\ heap[ret.self].cols = heap[ret.other].cols

\* -------------------------------------------------------------------- apply
\* The operator whose children the call o.apply(f) replaces: o itself, but
\* for a Fixpoint, which hands the call on to its body.
RECURSIVE ApplyTarget(_)
ApplyTarget(o) ==
    IF heap[o].cls = "Fixpoint" THEN ApplyTarget(heap[o].kids[1]) ELSE o

\* The calls of f made on the children kids, in order, each with what f
\* returned.
CallLog(kids, f) == [i \in 1..Len(kids) |-> <<kids[i], f[kids[i]]>>]

\* self.apply(f), f a function from operators to operators that returns no
\* plan the changed operator is part of.
apply(self, f) ==
    LET target == ApplyTarget(self)
        kids == children(target)
        replaced == [i \in 1..Len(kids) |-> f[kids[i]]]
    IN  /\ \A i \in 1..Len(kids) : target \notin PlanOf(replaced[i])
        /\ IF heap[target].cls \in Nary
           THEN /\ Copies < MaxCopies
                /\ heap' = [heap EXCEPT ![target].args = Len(lists) + 1]
                /\ lists' = Append(lists, replaced)
           ELSE /\ heap' = [heap EXCEPT ![target].kids = replaced]
                /\ UNCHANGED lists
        /\ ret' = [Called("apply", "None", self, self) EXCEPT
                      !.seq = CallLog(kids, f)]
        /\ UNCHANGED control

\* The variants built where apply is looked at: one for each apply method.
ApplyClasses == {"Scan", "Select", "Join", "NaryJoin", "Fixpoint"}

ApplyNext ==
    \/ \E cls \in ApplyClasses :
          \E kids \in KidLists(cls) : New(cls, 1, <<>>, kids)
    \/ \E self \in Ops, f \in [Ops -> Ops] : apply(self, f)

ApplySpec == Init /\ [][ApplyNext]_vars

\* The call self.apply(f) of this step called f once on each direct child
\* of self, in order, and on nothing else, put what f returned in the
\* child's place, and returned self.
ApplyReplaces(self) ==
    LET kids == children(self)
    IN  /\ Len(ret'.seq) = Len(kids)
        /\ Len(children(self)') = Len(kids)
        /\ \A i \in 1..Len(kids) :
              /\ ret'.seq[i][1] = kids[i]
              /\ children(self)'[i] = ret'.seq[i][2]
        /\ ret'.other = self

\* C17: for every variant with children, self.apply(f) replaces each direct
\* child c by f(c) in place, calls f once per direct child and on no other
\* operator, keeps the number of children and returns self.
C17_ApplyReplacesChildren ==
    [][ret'.call = "apply" =>
          \A self \in Ops :
              ret'.self = self /\ children(self) # <<>> => ApplyReplaces(self)]_vars

\* What the code does keep of C17: the same for every variant but Fixpoint.
ApplyReplacesButFixpoint ==
    [][ret'.call = "apply" =>
          \A self \in Ops :
              ret'.self = self /\ heap[self].cls # "Fixpoint" => ApplyReplaces(self)]_vars

\* Fixpoint.apply called f on a child of its body and kept its body.
FixpointAppliesBelow ==
    /\ ret.call = "apply" /\ heap[ret.self].cls = "Fixpoint"
    /\ ret.seq # <<>>

\* ---------------------------------------------------------------- traversal
\* The sequences seqs[1], seqs[2], ... one after the other.
RECURSIVE Concat(_)
Concat(seqs) == IF seqs = <<>> THEN <<>> ELSE Head(seqs) \o Concat(Tail(seqs))

\* list(o.postorder(f)) for the f that yields the operator it is given.
RECURSIVE postorder(_)
postorder(o) ==
    Concat([i \in 1..Len(children(o)) |-> postorder(children(o)[i])]) \o <<o>>

\* list(o.preorder(f)) for the same f: the children are walked by postorder.
preorder(o) ==
    <<o>> \o Concat([i \in 1..Len(children(o)) |-> postorder(children(o)[i])])

\* The call list(self.preorder(f)) or list(self.postorder(f)).
Traverse(self) ==
    /\ ret.call \notin {"preorder", "postorder"}
    /\ \/ ret' = [Called("preorder", "None", self, self) EXCEPT !.seq = preorder(self)]
       \/ ret' = [Called("postorder", "None", self, self) EXCEPT !.seq = postorder(self)]
    /\ UNCHANGED <<heap, lists, control>>

\* Plans of leaves, unary, binary and n-ary operators are built and walked.
TraverseClasses == {"Scan", "Select", "Join", "NaryJoin"}

TraverseNext ==
    \/ \E cls \in TraverseClasses :
          \E kids \in KidLists(cls) : New(cls, 1, <<>>, kids)
    \/ \E self \in Ops : Traverse(self)

TraverseSpec == Init /\ [][TraverseNext]_vars

\* The number of operators in o's plan, one shared by two parents counted
\* twice.
RECURSIVE Size(_)
RECURSIVE SizeOfAll(_)
SizeOfAll(kids) ==
    IF kids = <<>> THEN 0 ELSE Size(Head(kids)) + SizeOfAll(Tail(kids))

Size(o) == 1 + SizeOfAll(children(o))

\* o's plan is a tree: no operator has two parents in it.
IsTree(o) == Size(o) = Cardinality(PlanOf(o))

\* seq holds every operator of o's plan exactly once.
EachOnce(seq, o) ==
    /\ Len(seq) = Cardinality(PlanOf(o))
    /\ {seq[i] : i \in 1..Len(seq)} = PlanOf(o)

\* In seq every operator comes before each of its descendants.
ParentsFirst(seq) ==
    \A i \in 1..Len(seq), j \in 1..Len(seq) :
        seq[j] \in PlanOf(seq[i]) \ {seq[i]} => i < j

\* In seq every operator comes after all of its descendants.
ChildrenFirst(seq) ==
    \A i \in 1..Len(seq), j \in 1..Len(seq) :
        seq[j] \in PlanOf(seq[i]) \ {seq[i]} => j < i

\* C18: on a tree, preorder yields every operator before each of its
\* descendants, postorder after all of them, and each yields every operator
\* exactly once.
C18_TraversalOrders ==
    ret.call \in {"preorder", "postorder"} /\ IsTree(ret.self) =>
        /\ ret.call = "preorder" => EachOnce(ret.seq, ret.self) /\ ParentsFirst(ret.seq)
        /\ ret.call = "postorder" => EachOnce(ret.seq, ret.self) /\ ChildrenFirst(ret.seq)

\* What the code does keep of C18: postorder is as claimed, and preorder
\* visits every operator once, the root first.
TraversalVisitsOnce ==
    ret.call \in {"preorder", "postorder"} /\ IsTree(ret.self) =>
        /\ EachOnce(ret.seq, ret.self)
        /\ ret.call = "postorder" => ChildrenFirst(ret.seq)
        /\ ret.call = "preorder" => ret.seq[1] = ret.self

\* preorder yielded a grandchild before the child it hangs on.
PreorderChildAfterGrandchild ==
    /\ ret.call = "preorder" /\ IsTree(ret.self)
    /\ ~ParentsFirst(ret.seq)

\* ------------------------------------------------------------- collectGraph
\* Faulty variant of Listed: operators are told apart by ==.
Listed_Equal(o, nodes) == \E i \in 1..Len(nodes) : eq(nodes[i], o) = "True"

\* id(self) in [id(n) for n in graph['nodes']]
Listed(o, nodes) == \E i \in 1..Len(nodes) : nodes[i] = o

\* A collectGraph call is under way: ret.seq is its stack of calls, each
\* <<operator, k>>: k = 0 on entry, else the child the loop of line 119
\* reaches next.
Collecting == ret.call = "collectGraph" /\ ret.val = "running"

\* The call self.collectGraph() begins.
collectGraph(self) ==
    /\ ~Collecting
    /\ ret' = [Called("collectGraph", "running", self, self) EXCEPT
                  !.seq = <<<<self, 0>>>>]
    /\ UNCHANGED <<heap, lists, control>>

\* The stack with its innermost call gone; the outermost returns the graph.
Popped == SubSeq(ret.seq, 1, Len(ret.seq) - 1)

\* The innermost call takes its next step: it returns at once on a listed
\* operator, else lists it with the edges from its children, then calls
\* collectGraph on one child after the other and returns.
collect_step ==
    /\ Collecting
    /\ LET o == ret.seq[Len(ret.seq)][1]
           k == ret.seq[Len(ret.seq)][2]
           kids == children(o)
           done == IF Len(ret.seq) = 1 THEN "done" ELSE "running"
       IN  IF k = 0 THEN
               IF Listed(o, ret.graph.nodes)
               THEN ret' = [ret EXCEPT !.seq = Popped, !.val = done]
               ELSE ret' = [ret EXCEPT
                       !.graph.nodes = Append(@, o),
                       !.graph.edges = @ \o [i \in 1..Len(kids) |-> <<kids[i], o>>],
                       !.seq[Len(ret.seq)] = <<o, 1>>]
           ELSE IF k > Len(kids)
               THEN ret' = [ret EXCEPT !.seq = Popped, !.val = done]
               ELSE ret' = [ret EXCEPT !.seq = Append(
                               [@ EXCEPT ![Len(ret.seq)] = <<o, k + 1>>],
                               <<kids[k], 0>>)]
    /\ UNCHANGED <<heap, lists, control>>

\* Plans with shared operators and with equal ones are built, and their
\* graphs collected.
GraphNext ==
    \/ \E cls \in BookClasses :
          \E kids \in KidLists(cls) : ~Collecting /\ New(cls, 1, <<>>, kids)
    \/ \E self \in Ops : collectGraph(self)
    \/ collect_step

GraphSpec == Init /\ [][GraphNext]_vars

\* A call under way is not left standing.
GraphFairSpec == GraphSpec /\ WF_vars(collect_step)

\* The graph a finished call returned lists every operator of the plan
\* exactly once, and an edge from each child to its parent.
GraphOfPlan ==
    LET nodes == ret.graph.nodes
        plan == PlanOf(ret.self)
    IN  /\ {nodes[i] : i \in 1..Len(nodes)} = plan
        /\ Len(nodes) = Cardinality(plan)
        /\ {ret.graph.edges[i] : i \in 1..Len(ret.graph.edges)} =
              UNION {{<<children(o)[i], o>> : i \in 1..Len(children(o))} : o \in plan}

\* C19: collectGraph terminates on every plan, shared operators included,
\* and its node list holds every operator of the plan exactly once, by
\* identity: a shared one once, two equal ones both.
C19_CollectGraphLists ==
    /\ []<>(~Collecting)
    /\ [](ret.call = "collectGraph" /\ ret.val = "done" => GraphOfPlan)

\* A finished call on a plan in which an operator has two parents.
C19_Witness ==
    /\ ret.call = "collectGraph" /\ ret.val = "done"
    /\ \E o \in PlanOf(ret.self), a \in PlanOf(ret.self), b \in PlanOf(ret.self) :
          /\ a # b
          /\ \E i \in 1..Len(children(a)) : children(a)[i] = o
          /\ \E i \in 1..Len(children(b)) : children(b)[i] = o

\* A finished call on a plan with two distinct operators that are equal:
\* the graph lists both.
EqualOperatorsBothListed ==
    /\ ret.call = "collectGraph" /\ ret.val = "done"
    /\ \E a \in PlanOf(ret.self), b \in PlanOf(ret.self) :
          /\ a # b /\ SameStructure(a, b)
          /\ Listed(a, ret.graph.nodes) /\ Listed(b, ret.graph.nodes)

\* ----------------------------------------------------------- GroupBy.scheme
\* Longest column list a GroupBy is built with.
MaxCols == 2

\* A column expression is a number: c > 0 is the AttributeRef to column c of
\* the input, c < 0 the aggregate expression over column -c.
Exprs == Keys \cup {-c : c \in Keys}

\* expression.isaggregate(e)
isaggregate(e) == e < 0

\* [e for e in seq if keep(e)]
RECURSIVE Filter(_, _)
Filter(seq, aggregates) ==
    IF seq = <<>> THEN <<>>
    ELSE (IF isaggregate(Head(seq)) = aggregates THEN <<Head(seq)>> ELSE <<>>)
         \o Filter(Tail(seq), aggregates)

\* self.groupinglist and self.aggregatelist, as __init__ splits columnlist.
groupinglist(columnlist) == Filter(columnlist, FALSE)

aggregatelist(columnlist) == Filter(columnlist, TRUE)

\* resolve(i, attr) of GroupBy.scheme: the input's column for an
\* AttributeRef, else the name made of the expression's class and i.
resolve(i, attr) ==
    IF isaggregate(attr)
    THEN [class |-> "Aggregate", of |-> -attr, i |-> i]
    ELSE [class |-> "AttributeRef", of |-> attr, i |-> -1]

\* GroupBy.scheme(): the columns of columnlist, enumerated from 0.
GroupBy_scheme(columnlist) ==
    [k \in 1..Len(columnlist) |-> resolve(k - 1, columnlist[k])]

\* The call self.scheme() on a GroupBy.
scheme(self) ==
    /\ heap[self].cls = "GroupBy"
    /\ ret.call # "scheme"
    /\ ret' = [Called("scheme", "None", self, self) EXCEPT
                  !.seq = GroupBy_scheme(lists[heap[self].cols])]
    /\ UNCHANGED <<heap, lists, control>>

\* The column lists of at most n expressions.
RECURSIVE ColumnLists(_)
ColumnLists(n) ==
    IF n = 0 THEN {<<>>}
    ELSE ColumnLists(n - 1) \cup
         {Append(l, e) : l \in {c \in ColumnLists(n - 1) : Len(c) = n - 1}, e \in Exprs}

\* GroupBy nodes are built over a scan and asked for their scheme.
SchemeNext ==
    \/ heap = <<>> /\ New("Scan", 1, <<>>, <<>>)
    \/ \E columnlist \in ColumnLists(MaxCols) :
          heap # <<>> /\ New("GroupBy", 1, columnlist, <<1>>)
    \/ \E self \in Ops : scheme(self)

SchemeSpec == Init /\ [][SchemeNext]_vars

\* The scheme seq has one column for each expression of exprs, in order.
ColumnsOf(seq, exprs) ==
    /\ Len(seq) = Len(exprs)
    /\ \A k \in 1..Len(exprs) :
          /\ seq[k].class = (IF isaggregate(exprs[k]) THEN "Aggregate" ELSE "AttributeRef")
          /\ seq[k].of = (IF isaggregate(exprs[k]) THEN -exprs[k] ELSE exprs[k])

\* C20: GroupBy.scheme() lists the columns of the grouping expressions
\* first, in their order, then those of the aggregate expressions, whatever
\* the order of the column list.
C20_GroupingColumnsFirst ==
    ret.call = "scheme" =>
        LET columnlist == lists[heap[ret.self].cols]
        IN  ColumnsOf(ret.seq, groupinglist(columnlist) \o aggregatelist(columnlist))

\* What the code does keep of C20: the columns come in the order of the
\* column list, which is the claimed one when no aggregate expression stands
\* before a grouping expression.
SchemeFollowsColumnList ==
    ret.call = "scheme" => ColumnsOf(ret.seq, lists[heap[ret.self].cols])

\* scheme() of a GroupBy whose column list has an aggregate expression
\* before a grouping one has the aggregate column first.
AggregateColumnFirst ==
    /\ ret.call = "scheme" /\ Len(ret.seq) > 1
    /\ ret.seq[1].class = "Aggregate"
    /\ \E k \in 1..Len(ret.seq) : ret.seq[k].class = "AttributeRef"

\* ----------------------------------------------------------- Fixpoint, State
\* State(name, fixpoint): a leaf that refers to its Fixpoint, kept in key.
NewState(fixpoint) ==
    /\ Len(heap) < MaxOps
    /\ heap[fixpoint].cls = "Fixpoint"
    /\ heap' = Append(heap,
          [cls |-> "State", kids |-> <<>>, args |-> 0, key |-> fixpoint,
           cols |-> 0, trace |-> Len(lists) + 1, bound |-> "None",
           cleanup |-> "", alias |-> "self"])
    /\ lists' = Append(lists, <<>>)
    /\ ret' = NoRet
    /\ UNCHANGED control

\* self.loopBody(plan), plan a plan self is no operator of.
loopBody(self, plan) ==
    /\ heap[self].cls = "Fixpoint"
    /\ self \notin PlanOf(plan)
    /\ heap' = [heap EXCEPT ![self].kids = <<plan>>]
    /\ ret' = NoRet
    /\ UNCHANGED <<lists, control>>

\* What a scheme() call gives: a scheme, or the exception it raises.
SchemeIs(s) == [kind |-> "scheme", s |-> s]

SchemeRaises(exc) == [kind |-> exc, s |-> 0]

\* The calls a scheme() call may nest before the interpreter gives up; any
\* plan without a cycle is shallower.
StackDepth == 2 * MaxOps

\* o.scheme() with depth nested calls left: Scan's is its own, Select's its
\* input's, State's its Fixpoint's.
RECURSIVE Operator_scheme(_, _)
\* Faulty variant of Fixpoint_scheme: no body gives the empty scheme.
Fixpoint_scheme_Empty(o, depth) ==
    IF heap[o].kids # <<>> THEN Operator_scheme(heap[o].kids[1], depth)
    ELSE SchemeIs(0)

\* Fixpoint.scheme()
Fixpoint_scheme(o, depth) ==
    IF heap[o].kids # <<>> THEN Operator_scheme(heap[o].kids[1], depth)
    ELSE SchemeRaises("RecursionError")

Operator_scheme(o, depth) ==
    IF depth = 0 THEN SchemeRaises("RuntimeError")
    ELSE IF heap[o].cls = "Fixpoint" THEN Fixpoint_scheme(o, depth - 1)
    ELSE IF heap[o].cls = "State" THEN Operator_scheme(heap[o].key, depth - 1)
    ELSE IF heap[o].cls = "Select" THEN Operator_scheme(heap[o].kids[1], depth - 1)
    ELSE SchemeIs(heap[o].key)

\* The call self.scheme().
SchemeCall(self) ==
    /\ ret.call # "scheme()"
    /\ ret' = [Called("scheme()", "None", self, self) EXCEPT
                  !.seq = <<Operator_scheme(self, StackDepth)>>]
    /\ UNCHANGED <<heap, lists, control>>

\* Recursive plans are put together and asked for their scheme.
FixNext ==
    \/ \E key \in Keys : New("Scan", key, <<>>, <<>>)
    \/ \E input \in Ops : New("Select", 1, <<>>, <<input>>)
    \/ New("Fixpoint", 1, <<>>, <<>>)
    \/ \E body \in Ops : New("Fixpoint", 1, <<>>, <<body>>)
    \/ \E fixpoint \in Ops : NewState(fixpoint)
    \/ \E self \in Ops, plan \in Ops : loopBody(self, plan)
    \/ \E self \in Ops : SchemeCall(self)

FixSpec == Init /\ [][FixNext]_vars

\* The Fixpoint whose scheme self.scheme() asks for, if self is a Fixpoint
\* or a State; else 0.
FixpointOf(self) ==
    IF heap[self].cls = "Fixpoint" THEN self
    ELSE IF heap[self].cls = "State" THEN heap[self].key ELSE 0

\* C21: scheme() of a Fixpoint, or of a State that refers to it, raises
\* RecursionError while the Fixpoint has no body, and gives what the body's
\* scheme() gives once a body is bound.
C21_FixpointSchemeGuard ==
    ret.call = "scheme()" /\ FixpointOf(ret.self) # 0 =>
        LET fixpoint == FixpointOf(ret.self)
        IN  IF heap[fixpoint].kids = <<>>
            THEN ret.seq[1].kind = "RecursionError"
            ELSE ret.seq[1] = Operator_scheme(heap[fixpoint].kids[1], StackDepth)

\* scheme() of a State raised RecursionError on a Fixpoint without a body,
\* and the scheme of a bound one was given.
C21_Witness ==
    /\ ret.call = "scheme()" /\ heap[ret.self].cls = "State"
    /\ ret.seq[1].kind = "RecursionError"
    /\ \E o \in Ops : /\ heap[o].cls = "Fixpoint" /\ heap[o].kids # <<>>

\* ---------------------------------------------------- add_equijoin_condition
\* Most equalities a run adds to one join.
MaxCalls == 2

\* Expressions of raco.expression, as trees.
UnnamedAttributeRef(position) == <<"$", position>>

EQ(left, right) == <<"EQ", left, right>>

AND(left, right) == <<"AND", left, right>>

\* The condition a Join is built with.
Condition == <<"COND", 1>>

\* CompositeBinaryOperator.get_equijoin_condition(col0, col1)
get_equijoin_condition(col0, col1) ==
    EQ(UnnamedAttributeRef(col0), UnnamedAttributeRef(col1))

\* The equalities a condition holds.
RECURSIVE Equalities(_)
Equalities(condition) ==
    IF condition[1] = "AND" THEN Equalities(condition[2]) + Equalities(condition[3])
    ELSE IF condition[1] = "EQ" THEN 1 ELSE 0

\* Faulty variant of Join_condition: the new equality is put in front.
Join_condition_Front(old, condition) == AND(condition, old)

\* What Join.add_equijoin_condition assigns to self.condition.
Join_condition(old, condition) == AND(old, condition)

\* self.add_equijoin_condition(col0, col1): a CrossProduct returns a new Join
\* over its children, a Join changes its condition and returns itself.
add_equijoin_condition(self, col0, col1) ==
    LET condition == get_equijoin_condition(col0, col1)
        new == Len(heap) + 1
    IN  /\ IF heap[self].cls = "CrossProduct" THEN
               /\ Len(heap) < MaxOps
               /\ heap' = Append(heap,
                     [heap[self] EXCEPT !.cls = "Join", !.key = condition,
                                        !.trace = Len(lists) + 1])
               /\ lists' = Append(lists, <<>>)
               /\ ret' = [Called("add_equijoin_condition", "None", self, new)
                             EXCEPT !.seq = <<col0, col1>>]
           ELSE
               /\ heap[self].cls = "Join"
               /\ Equalities(heap[self].key) < MaxCalls
               /\ heap' = [heap EXCEPT ![self].key = Join_condition(@, condition)]
               /\ ret' = [Called("add_equijoin_condition", "None", self, self)
                             EXCEPT !.seq = <<col0, col1>>]
               /\ UNCHANGED lists
        /\ UNCHANGED control

\* The columns of o's scheme: one for a Scan, its children's for a join.
RECURSIVE Width(_)
Width(o) ==
    IF heap[o].kids = <<>> THEN 1
    ELSE Width(heap[o].kids[1]) + Width(heap[o].kids[2])

\* One cross product or join is built over scans and given equalities
\* between columns, among them a position past the scheme's end; a cross
\* product is turned into a join once.
JoinNext ==
    \/ /\ \A o \in Ops : heap[o].cls = "Scan"
       /\ Len(heap) < MaxOps - 1
       /\ New("Scan", 1, <<>>, <<>>)
    \/ \E left \in Ops, right \in Ops :
          /\ \A o \in Ops : heap[o].cls = "Scan"
          /\ \/ New("CrossProduct", 0, <<>>, <<left, right>>)
             \/ New("Join", Condition, <<>>, <<left, right>>)
    \/ \E self \in Ops :
          /\ heap[self].cls = "CrossProduct" => \A o \in Ops : heap[o].cls # "Join"
          /\ \E col0 \in 0..Width(self), col1 \in 0..Width(self) :
                add_equijoin_condition(self, col0, col1)

JoinSpec == Init /\ [][JoinNext]_vars

\* The child of self that column col of its scheme comes from: 1 or 2, or 0
\* for a position the scheme does not have.
ChildOf(self, col) ==
    IF col < Width(heap[self].kids[1]) THEN 1
    ELSE IF col < Width(self) THEN 2 ELSE 0

\* col0 and col1 resolve into two different children of self.
TwoChildren(self, col0, col1) ==
    /\ ChildOf(self, col0) # 0 /\ ChildOf(self, col1) # 0
    /\ ChildOf(self, col0) # ChildOf(self, col1)

\* C22: add_equijoin_condition(col0, col1) with columns that do not resolve
\* into two different children raises, returns no operator, and leaves the
\* operator as it was.
C22_SameChildFailsLoudly ==
    [][ret'.call = "add_equijoin_condition" =>
          \A self \in Ops :
              ret'.self = self
                /\ ~TwoChildren(self, ret'.seq[1], ret'.seq[2]) =>
                  /\ ret'.val # "None"
                  /\ heap' = heap]_vars

\* The call was made with two columns of one child and returned a join.
SameChildJoined ==
    /\ ret.call = "add_equijoin_condition" /\ ret.val = "None"
    /\ ~TwoChildren(ret.self, ret.seq[1], ret.seq[2])
    /\ heap[ret.other].cls = "Join"

MaxSym == 11

\* The decimal digits of n, as "%s" and "%d" write them.
RECURSIVE Digits(_)
Digits(n) == IF n < 10 THEN <<n>> ELSE Append(Digits(n \div 10), n % 10)

\* "V%s" % n
V(n) == <<"V">> \o Digits(n)

\* "t_%03d" % n: at least three digits, zeros in front.
RECURSIVE Pad(_, _)
Pad(digits, width) ==
    IF Len(digits) >= width THEN digits ELSE Pad(<<0>> \o digits, width)

t_(n) == <<"t", "_">> \o Pad(Digits(n), 3)

\* reset()
reset ==
    /\ gensym_i' = 0
    /\ names' = [names EXCEPT !.gensym = <<>>, !.reset = TRUE]
    /\ UNCHANGED <<nextid, cfg, add_edges, built, pc, todo, live_in, live_out,
                   result, heap, lists, ret, kept>>

\* Faulty variant of gensym: the name is formed before the increment.
gensym_Stale ==
    /\ gensym_i < MaxSym
    /\ gensym_i' = gensym_i + 1
    /\ names' = [names EXCEPT
                   !.gensym = Append(@, V(gensym_i)),
                   !.fresh = IF names.reset THEN @ ELSE Append(@, V(gensym_i))]
    /\ UNCHANGED <<nextid, cfg, add_edges, built, pc, todo, live_in, live_out,
                   result, heap, lists, ret, kept>>

\* gensym()
gensym ==
    /\ gensym_i < MaxSym
    /\ gensym_i' = gensym_i + 1
    /\ names' = [names EXCEPT
                   !.gensym = Append(@, V(gensym_i')),
                   !.fresh = IF names.reset THEN @ ELSE Append(@, V(gensym_i'))]
    /\ UNCHANGED <<nextid, cfg, add_edges, built, pc, todo, live_in, live_out,
                   result, heap, lists, ret, kept>>

\* StagedTupleRef.genname()
genname ==
    /\ nextid < MaxSym
    /\ nextid' = nextid + 1
    /\ names' = [names EXCEPT !.genname = Append(@, t_(nextid))]
    /\ UNCHANGED <<gensym_i, cfg, add_edges, built, pc, todo, live_in, live_out,
                   result, heap, lists, ret, kept>>

SymNext == reset \/ gensym \/ genname

SymSpec == Init /\ [][SymNext]_vars

\* No two items of seq are the same.
AllDifferent(seq) ==
    \A m \in 1..Len(seq), n \in 1..Len(seq) : m # n => seq[m] # seq[n]

\* C24: the names gensym() has returned since the most recent reset() are all
\* different, and they are, one by one, the names a fresh start gives: V1,
\* V2, ... and, after a reset(), the very names returned before the first
\* reset().
C24_GensymResettable ==
    /\ AllDifferent(names.gensym)
    /\ Len(names.gensym) = gensym_i
    /\ \A n \in 1..Len(names.gensym) :
          /\ names.gensym[n][1] = "V"
          /\ n < 10 => names.gensym[n] = <<"V", n>>
          /\ n >= 10 => names.gensym[n] = <<"V", n \div 10, n % 10>>
          /\ n <= Len(names.fresh) => names.gensym[n] = names.fresh[n]

\* After a reset() gensym() has again returned names of two digits, as it
\* had before the reset.
C24_Witness ==
    /\ names.reset
    /\ Len(names.gensym) = MaxSym
    /\ Len(names.fresh) = MaxSym

\* genname() has no reset and never returns a name twice either.
GennameNeverRepeats == AllDifferent(names.genname)

\* ------------------------------------------------------- chaining and loops
\* The nodes of the do/while loop that the back-edge e closes: those from
\* its header e[2] to its terminator e[1].
LoopOf(e) == {n \in Nodes : e[2] <= n /\ n <= e[1]}

\* a and b are in the same loops.
SameLoop(a, b) == \A e \in BackEdges : a \in LoopOf(e) <=> b \in LoopOf(e)

\* C25: apply_chaining fuses A into B only if A and B are in the same
\* do/while loops: no node of a loop (its terminator, say) is fused into a
\* node outside the loop, and no node outside into one inside.
C25_FusesWithinLoop ==
    [][pc = "chain" => \A a, b \in Nodes : Fused(a, b) => SameLoop(a, b)]_vars

\* No node before a loop is ever fused into the loop: into its header not,
\* because of the header's in-degree, and no other node of the loop comes
\* right after a node outside.
NeverFusedIntoLoop ==
    [][pc = "chain" =>
          \A a, b \in Nodes :
              Fused(a, b) => \A e \in BackEdges : b \in LoopOf(e) => a \in LoopOf(e)]_vars

\* A loop's terminator has been fused into the node after the loop, and the
\* loop's back-edge is gone with it.
TerminatorFusedOut ==
    /\ pc = "chain"
    /\ BackEdges = {}
    /\ add_edges = 1
    /\ \E n \in Nodes : graph_node[n].present /\ Cardinality(StmtsOf(graph_node[n].op)) > 1

\* ------------------------------------------------------ the order of fusions
\* The pair at position k of sorted_vertices passes the four conditions.
Eligible(k) == FeedsOnly(k) /\ in_degree(sorted_vertices[k + 1]) # 2

EligiblePairs == {k \in 1..(Len(sorted_vertices) - 1) : Eligible(k)}

\* C26: a round of apply_chaining with eligible pairs fuses the one that is
\* first in id order and no other: the first node of that pair goes, the
\* second gets the inlined operator and the merged uses, every other node
\* stays as it is, and the loop goes round again (on liveness of the new
\* graph); with no eligible pair the call ends and the graph stays. The graph
\* after a round is thus a function of the graph before it.
C26_FusesFirstPair ==
    [][pc = "chain" =>
          IF EligiblePairs = {}
          THEN pc' = "idle" /\ UNCHANGED cfg
          ELSE \E k \in EligiblePairs :
                  LET a == sorted_vertices[k]
                      b == sorted_vertices[k + 1]
                  IN  /\ \A j \in EligiblePairs : k <= j
                      /\ pc' = "chain"
                      /\ Nodes' = Nodes \ {a}
                      /\ sorted_vertices' = SelectSeq(sorted_vertices, LAMBDA n : n # a)
                      /\ graph_node'[b] = InlinedAttr(b, a)
                      /\ \A n \in Nodes \ {a, b} : graph_node'[n] = graph_node[n]
                      /\ graph_edge' = EdgesAfterDelete(a)
                      /\ UNCHANGED next_op_id]_vars

\* C26's case: of two pairs that were eligible at once the first has been
\* fused, and the second, still eligible, is left for the next round.
C26_Witness ==
    /\ pc = "chain"
    /\ sorted_vertices = <<1, 2>>
    /\ StmtsOf(graph_node[1].op) = {0, 1}
    /\ StmtsOf(graph_node[2].op) = {2}
    /\ Eligible(1)

\* ------------------------------------------------- get_logical_plan, twice
\* Most statements of a graph that is structured after the rewrites.
OptNodes == 4

\* The caller keeps the plan that get_logical_plan has just returned:
\* plan = cfg.get_logical_plan().
keep ==
    /\ pc = "idle"
    /\ result.kind = "plan"
    /\ kept # result
    /\ kept' = result
    /\ UNCHANGED <<cfg, add_edges, built, pc, todo, live_in, live_out, result,
                   heap, lists, ret, symbols>>

\* Building a graph of up to OptNodes statements with a loop.
BuildLoop ==
    \/ \E s \in Stmts : ~built /\ next_op_id < OptNodes /\ add_op(s.def, s.uses)
    \/ \E s \in Nodes, d \in Nodes :
          /\ ~built /\ add_edges < MaxAddEdge
          /\ d <= s /\ <<s, d>> \notin graph_edge
          /\ add_edge(s, d)

\* get_logical_plan() is called on the graph again and again, and the
\* caller may keep a plan it returns.
TwiceNext ==
    \/ BuildLoop
    \/ Nodes # {} /\ get_logical_plan(TRUE, TRUE)
    \/ dce_round
    \/ chain_round
    \/ structure
    \/ keep

TwiceSpec == Init /\ [][TwiceNext]_vars

EachRewriteIdempotent ==
    [][/\ pc = "dce" /\ pc' # "dce" => NoDeadDef'
       /\ pc = "chain" /\ pc' # "chain" => NoFusablePair']_vars

\* And on a graph without loops the second plan is the first.
SecondPlanEqualWithoutLoops ==
    add_edges = 0 /\ kept.kind = "plan" /\ pc = "idle" /\ result.kind # "None"
        => result = kept

\* The second call has returned a plan with fewer statements than the plan
\* the first call returned.
SecondPlanShorter ==
    /\ kept.kind = "plan" /\ pc = "idle" /\ result.kind = "plan"
    /\ StmtsOf(result.plan) # StmtsOf(kept.plan)

\* ------------------------------------------ structuring after the rewrites
\* get_logical_plan is called with the optimizations disabled or enabled,
\* in any order, and the caller may keep a plan it returns.
OptNext ==
    \/ BuildLoop
    \/ Nodes # {} /\ get_logical_plan(FALSE, FALSE)
    \/ Nodes # {} /\ get_logical_plan(TRUE, TRUE)
    \/ dce_round
    \/ chain_round
    \/ structure
    \/ keep

OptSpec == Init /\ [][OptNext]_vars

StructuredWithoutLoops ==
    add_edges = 0 /\ pc = "idle" /\ result.kind # "None" => result.kind = "plan"

\* A plan was returned with the optimizations disabled; with them enabled,
\* dead_code_elimination has deleted the node after the loop, the loop's
\* terminator is left with its back-edge only, and the call has failed.
TerminatorLeftLast ==
    /\ kept.kind = "plan"
    /\ pc = "idle"
    /\ result.kind = "AssertionError"
    /\ ~DoubleMarker
    /\ \E e \in BackEdges : out_degree(e[1]) = 1 /\ in_degree(e[2]) = 2

\* A plan was returned with the optimizations disabled; with them enabled,
\* dead_code_elimination has deleted the loop's header, the terminator is
\* left as header and terminator at once, and the call has failed.
HeaderDeletedAsserts ==
    /\ kept.kind = "plan"
    /\ pc = "idle"
    /\ result.kind = "AssertionError"
    /\ DoubleMarker
    /\ \A n \in Nodes : graph_node[n].op = StmtOp(n, DefVar(n), Uses(n))

\* ------------------------------------------------- the graph and its vertices
\* C29: after any interleaving of add_op, add_edge between ids of the graph,
\* dead_code_elimination and apply_chaining, sorted_vertices is the
\* ascending list of the graph's node ids and every node of the graph has
\* its op, def_var and uses attributes; so no add_op brings a deleted id
\* back into the graph.
C29_VerticesAreTheNodes ==
    /\ sorted_vertices = Sorted(Nodes)
    /\ \A n \in Nodes : graph_node[n].present
    /\ \A n \in Nodes : n < next_op_id

\* What the code keeps of C29: sorted_vertices is ascending, without
\* repetition, and lists exactly the nodes that have their attributes.
VerticesAreTheAttributed ==
    /\ \A k \in 1..(Len(sorted_vertices) - 1) : sorted_vertices[k] < sorted_vertices[k + 1]
    /\ {sorted_vertices[k] : k \in 1..Len(sorted_vertices)} =
          {n \in Nodes : graph_node[n].present}

\* A deleted id is back in the graph, as a node without attributes that
\* sorted_vertices does not list, and a rewrite called on that graph has
\* raised KeyError.
DeletedIdIsBack ==
    /\ \E n \in Nodes : ~graph_node[n].present
    /\ Len(sorted_vertices) < Cardinality(Nodes)
    /\ result.kind = "KeyError"

\* ------------------------------------------------------ fusion and liveness
\* Liveness of the graph after the fusion of a into b agrees with liveness
\* before it: b has a's former live_in and its own former live_out, and
\* every other node has the sets and the attributes it had.
LivenessKept(a, b) ==
    /\ Liveness'.live_in[b] = Liveness.live_in[a]
    /\ Liveness'.live_out[b] = Liveness.live_out[b]
    /\ \A n \in Nodes \ {a, b} :
          /\ n \in Nodes'
          /\ Liveness'.live_in[n] = Liveness.live_in[n]
          /\ Liveness'.live_out[n] = Liveness.live_out[n]
          /\ graph_node'[n] = graph_node[n]

\* C30: a fusion of A into B does not disturb liveness elsewhere: the fused
\* node's live_in is A's former live_in, its live_out is B's former
\* live_out, and the live_in, live_out, operator, defined variable and uses
\* of every other node are unchanged.
C30_FusionKeepsLiveness ==
    [][pc = "chain" =>
          \A a, b \in Nodes : Fused(a, b) => LivenessKept(a, b)]_vars

\* What the code keeps of C30: the same for a fusion within one loop, or
\* outside every loop.
FusionInLoopKeepsLiveness ==
    [][pc = "chain" =>
          \A a, b \in Nodes : Fused(a, b) /\ SameLoop(a, b) => LivenessKept(a, b)]_vars

\* A terminator has been fused into the node after its loop, and a variable
\* that the loop's header reads is no longer live where the terminator was.
FusedOutLosesLiveness ==
    /\ pc = "chain"
    /\ BackEdges = {}
    /\ add_edges = 1
    /\ \E n \in Nodes :
          /\ Cardinality(StmtsOf(graph_node[n].op)) > 1
          /\ \E h \in Nodes : h < n /\ ~(Uses(h) \subseteq Liveness.live_in[n])
====
